---------------------------- MODULE Spec2Model ----------------------------
(***************************************************************************)
(* A model of the remap engine of RazerControls                            *)
(* (services/remap_daemon/engine.py) together with the keycode map it      *)
(* resolves schema key names with (crates/keycode_map/mapping.py).         *)
(* The keycode map is also driven on its own, name by name.                *)
(*                                                                         *)
(* The engine is a state machine driven by process_event, reload_profile   *)
(* and set_uinput.  Everything it writes to the uinput device is recorded  *)
(* in `effects` (the writes and sleeps of the last call), and a few        *)
(* observer variables record what the kernel and the user see: which       *)
(* output codes are down on the virtual device, which physical keys are    *)
(* down, and which binding fired on the pending press of each key.         *)
(***************************************************************************)
EXTENDS Integers, Sequences, FiniteSets, TLC

VARIABLES
    profile,            \* RemapEngine.profile
    pressed,            \* RemapEngine.state.pressed (KeyState.pressed)
    active_layer,       \* RemapEngine.state.active_layer
    uinput,             \* RemapEngine._uinput is set (TRUE) or None (FALSE)
    _bindings,          \* RemapEngine._bindings: layer id -> code -> Binding
    _macros,            \* RemapEngine._macros: macro id -> MacroAction
    _layer_modifiers,   \* RemapEngine._layer_modifiers: code -> layer id
    op,                 \* the last call made on the engine, with its arguments
    handled,            \* what the last call returned (process_event's bool)
    raised,             \* the last call raised an exception
    effects,            \* what the last call did on the sink, in order
    sink_down,          \* codes whose last write on the sink is a down
    phys_down,          \* physical keys whose last event is a press
    press_consumed,     \* those of them whose press process_event consumed
    waiting,            \* the process_event call that is in progress: its
                        \*   event, where it is, what it did, what it does
                        \*   next, the layer id it has read, and whether
                        \*   the KeyState it has loaded was replaced since
    reloading,          \* the reload_profile call that is in progress
                        \*   beside it: where it is, what it still does
    fired,              \* key -> binding that fired on its pending press
    modifier_held,      \* the layer modifier pressed last and not yet released
    hist,               \* the events since construction, while a scenario
    sink,               \* the sink writes since construction, while a scenario
    calls,              \* the number of calls made on the engine
    lookup,             \* the last call made on the keycode map
    answer,             \* what that call returned
    recording,          \* MacroRecorder: recording is on
    _events,            \* MacroRecorder._events: the buffer of RecordedEvents
    config,             \* MacroRecorder: min_delay_ms, max_delay_ms,
                        \*   record_delays, merge_press_release
    rec_op,             \* the last call made on the recorder
    accepted,           \* what record_event returned last
    compiled,           \* the MacroAction the last call returned, if stop()
    world,              \* what the daemon finds: the profile's input_devices,
                        \*   each device's state, whether a sink can be made
    engine,             \* RemapDaemon.engine is set (TRUE) or None (FALSE)
    daemon_uinput,      \* RemapDaemon.uinput is set (TRUE) or None (FALSE)
    grabbed_devices,    \* RemapDaemon.grabbed_devices: the ids grabbed
    daemon_op,          \* the last call made on the daemon and what it did
    dispatching,        \* the event the dispatch thread is in process_event
                        \*   for, if it is
    thread,             \* the thread that made the last call on the engine
    queue,              \* the profile-switch intents not yet applied
    current_keys,       \* HotkeyListener.current_keys
    _triggered,         \* HotkeyListener._triggered
    profile_hotkeys,    \* settings.hotkeys.profile_hotkeys, the list that
                        \*   get_bindings() returns
    running,            \* RemapDaemon.running: the dispatch loop is on
    listener,           \* HotkeyListener.listener is set (TRUE) or None
    hk_op,              \* the last callback the listener got, with its key
    switched,           \* the index that callback passed to
                        \*   on_profile_switch, if it called it
    held_since_switch,  \* the indices on_profile_switch was called with
                        \*   whose binding matched the keys held after
                        \*   every release since
    combo_switches,     \* the calls of on_profile_switch since the set of
                        \*   keys held last changed
    dbus,               \* the devices the OpenRazer daemon offers on DBus
    _daemon,            \* OpenRazerBridge._daemon is set (TRUE) or None
    _devices,           \* OpenRazerBridge._devices: serial -> RazerDevice
    bridge_op,          \* the last call made on the bridge and what it did
    device_grabbed,     \* the input device is grabbed by the recorder
    position,           \* where record_from_device is: not called, polling,
                        \*   returned or raised
    dev_grabs,          \* the grab() calls of the last record_from_device
    dev_ungrabs,        \* its ungrab() calls
    stop_pressed,       \* it has read the press of the stop key
    polls               \* the polls made on the device

vars == <<profile, pressed, active_layer, uinput, _bindings, _macros,
          _layer_modifiers, op, handled, raised, effects, sink_down,
          phys_down, press_consumed, waiting, reloading, fired,
          modifier_held, hist, sink, calls, lookup, answer,
          recording, _events, config, rec_op, accepted, compiled,
          world, engine, daemon_uinput, grabbed_devices, daemon_op,
          dispatching, thread, queue, current_keys, _triggered,
          profile_hotkeys, running, listener, hk_op, switched,
          held_since_switch, combo_switches, dbus, _daemon, _devices, bridge_op,
          device_grabbed, position, dev_grabs, dev_ungrabs, stop_pressed,
          polls>>

engine_vars == <<profile, pressed, active_layer, uinput, _bindings, _macros,
                 _layer_modifiers>>

\* the engine with its observers, the keycode map, the recorder
remap_vars == <<profile, pressed, active_layer, uinput, _bindings, _macros,
                _layer_modifiers, op, handled, raised, effects, sink_down,
                phys_down, press_consumed, waiting, reloading, fired,
                modifier_held, hist, sink, calls>>
keymap_vars == <<lookup, answer>>
\* the OpenRazer bridge; the recorder that reads a device
bridge_vars == <<dbus, _daemon, _devices, bridge_op>>
device_vars == <<device_grabbed, position, dev_grabs, dev_ungrabs,
                 stop_pressed, polls>>
recorder_vars == <<recording, _events, config, rec_op, accepted, compiled>>
\* what the observers of the hotkey listener hold
hotkey_obs == <<hk_op, switched, held_since_switch, combo_switches>>
\* the daemon, its threads and the hotkey listener
daemon_vars == <<world, engine, daemon_uinput, grabbed_devices, daemon_op,
                 dispatching, thread, queue, current_keys, _triggered,
                 profile_hotkeys, running, listener, hk_op, switched,
                 held_since_switch, combo_switches>>

-----------------------------------------------------------------------------
(* Python values                                                           *)

\* None, where the code returns Optional[int]
None == -1

\* an empty dict
EmptyDict == [k \in {} |-> 0]

\* d[k] = v
DictSet(d, k, v) == [x \in (DOMAIN d) \cup {k} |-> IF x = k THEN v ELSE d[x]]

\* d.get(k, default)
DictGet(d, k, default) == IF k \in DOMAIN d THEN d[k] ELSE default

\* reversed(s)
RECURSIVE reversed(_)
reversed(s) == IF s = <<>> THEN <<>> ELSE reversed(Tail(s)) \o <<Head(s)>>

-----------------------------------------------------------------------------
(* evdev.ecodes: the kernel's constants, the part the model uses.          *)
(* getattr(ecodes, name, None) is a lookup in this table.                  *)

ecodes ==
    [EV_SYN |-> 0, EV_KEY |-> 1, EV_REL |-> 2, EV_ABS |-> 3, ABS_HAT0X |-> 16,
     KEY_RESERVED |-> 0, KEY_1 |-> 2, KEY_TAB |-> 15, KEY_Q |-> 16,
     KEY_ENTER |-> 28, KEY_LEFTCTRL |-> 29, KEY_A |-> 30, KEY_LEFTSHIFT |-> 42,
     KEY_C |-> 46, KEY_B |-> 48, KEY_SPACE |-> 57, KEY_LEFT |-> 105,
     KEY_POWER |-> 116, KEY_STOP |-> 128, KEY_BACK |-> 158,
     KEY_FORWARD |-> 159, KEY_STOPCD |-> 166,
     BTN_LEFT |-> 272, BTN_SIDE |-> 275, BTN_EXTRA |-> 276,
     BTN_FORWARD |-> 277, BTN_BACK |-> 278, BTN_TOUCH |-> 330]

getattr_ecodes(name) == DictGet(ecodes, name, None)

\* a mutant of EVDEV_TO_SCHEMA: KEY_STOP and KEY_STOPCD share the alias STOP
EVDEV_TO_SCHEMA_shared_alias ==
    [BTN_LEFT |-> "MOUSE_LEFT",
     BTN_SIDE |-> "MOUSE_SIDE", BTN_EXTRA |-> "MOUSE_EXTRA",
     BTN_FORWARD |-> "MOUSE_FORWARD", BTN_BACK |-> "MOUSE_BACK",
     KEY_LEFTCTRL |-> "CTRL", KEY_LEFTSHIFT |-> "SHIFT",
     KEY_TAB |-> "TAB", KEY_ENTER |-> "ENTER", KEY_SPACE |-> "SPACE",
     KEY_LEFT |-> "LEFT", KEY_STOPCD |-> "STOP", KEY_STOP |-> "STOP",
     KEY_A |-> "A", KEY_B |-> "B", KEY_C |-> "C", KEY_Q |-> "Q",
     KEY_1 |-> "1"]

\* EVDEV_TO_SCHEMA, the entries for the kernel names above that it holds
EVDEV_TO_SCHEMA ==
    [BTN_LEFT |-> "MOUSE_LEFT",
     BTN_SIDE |-> "MOUSE_SIDE", BTN_EXTRA |-> "MOUSE_EXTRA",
     BTN_FORWARD |-> "MOUSE_FORWARD", BTN_BACK |-> "MOUSE_BACK",
     KEY_LEFTCTRL |-> "CTRL", KEY_LEFTSHIFT |-> "SHIFT",
     KEY_TAB |-> "TAB", KEY_ENTER |-> "ENTER", KEY_SPACE |-> "SPACE",
     KEY_LEFT |-> "LEFT", KEY_STOPCD |-> "STOP",
     KEY_A |-> "A", KEY_B |-> "B", KEY_C |-> "C", KEY_Q |-> "Q",
     KEY_1 |-> "1"]

\* SCHEMA_TO_EVDEV: the reverse mapping, plus the evdev names themselves
SCHEMA_TO_EVDEV ==
    LET rev == [s \in {EVDEV_TO_SCHEMA[k] : k \in DOMAIN EVDEV_TO_SCHEMA} |->
                  CHOOSE k \in DOMAIN EVDEV_TO_SCHEMA : EVDEV_TO_SCHEMA[k] = s]
    IN [n \in (DOMAIN rev) \cup (DOMAIN EVDEV_TO_SCHEMA) |->
          IF n \in DOMAIN rev THEN rev[n] ELSE n]

\* SCHEMA_TO_UINPUT as _build_uinput_map fills it
SCHEMA_TO_UINPUT ==
    LET known == {k \in DOMAIN EVDEV_TO_SCHEMA : getattr_ecodes(k) # None}
        byschema == [s \in {EVDEV_TO_SCHEMA[k] : k \in known} |->
                       getattr_ecodes(CHOOSE k \in known : EVDEV_TO_SCHEMA[k] = s)]
    IN [n \in (DOMAIN byschema) \cup known |->
          IF n \in known THEN getattr_ecodes(n) ELSE byschema[n]]

evdev_code_to_schema(evdev_name) ==
    DictGet(EVDEV_TO_SCHEMA, evdev_name, evdev_name)

\* a mutant of schema_to_evdev_code: the BTN_ prefix is tried before KEY_
schema_to_evdev_code_btn_first(schema_name) ==
    IF schema_name \in DOMAIN SCHEMA_TO_UINPUT
    THEN SCHEMA_TO_UINPUT[schema_name]
    ELSE LET evdev_name == DictGet(SCHEMA_TO_EVDEV, schema_name, schema_name)
         IN IF getattr_ecodes(evdev_name) # None
            THEN getattr_ecodes(evdev_name)
            ELSE IF getattr_ecodes("BTN_" \o schema_name) # None
                 THEN getattr_ecodes("BTN_" \o schema_name)
                 ELSE getattr_ecodes("KEY_" \o schema_name)

schema_to_evdev_code(schema_name) ==
    IF schema_name \in DOMAIN SCHEMA_TO_UINPUT
    THEN SCHEMA_TO_UINPUT[schema_name]
    ELSE LET evdev_name == DictGet(SCHEMA_TO_EVDEV, schema_name, schema_name)
         IN IF getattr_ecodes(evdev_name) # None
            THEN getattr_ecodes(evdev_name)
            ELSE IF getattr_ecodes("KEY_" \o schema_name) # None
                 THEN getattr_ecodes("KEY_" \o schema_name)
                 ELSE getattr_ecodes("BTN_" \o schema_name)

\* `if code:` -- None and 0 are both falsy
Truthy(code) == code # None /\ code # 0

-----------------------------------------------------------------------------
(* crates.profile_schema: the profile documents the engine is built from.  *)
(* An absent macro_id or hold_modifier_input_code is "" (the code tests    *)
(* both for truth, so None and "" behave alike).                           *)

Binding(input_code, action_type, output_keys, macro_id) ==
    [input_code |-> input_code, action_type |-> action_type,
     output_keys |-> output_keys, macro_id |-> macro_id]

Layer(id, hold_modifier_input_code, bindings) ==
    [id |-> id, hold_modifier_input_code |-> hold_modifier_input_code,
     bindings |-> bindings]

MacroStep(type, key, delay_ms, text) ==
    [type |-> type, key |-> key, delay_ms |-> delay_ms, text |-> text]

MacroAction(id, steps, repeat_count, repeat_delay_ms) ==
    [id |-> id, steps |-> steps, repeat_count |-> repeat_count,
     repeat_delay_ms |-> repeat_delay_ms]

Profile(id, layers, macros) == [id |-> id, layers |-> layers, macros |-> macros]

\* the fixtures of tests/test_remap_engine.py
empty_profile == Profile("empty", <<Layer("base", "", <<>>)>>, <<>>)

simple_profile ==
    Profile("simple",
        <<Layer("base", "",
            <<Binding("BTN_SIDE", "KEY", <<"A">>, ""),
              Binding("BTN_EXTRA", "CHORD", <<"CTRL", "C">>, ""),
              Binding("BTN_FORWARD", "DISABLED", <<>>, ""),
              Binding("BTN_BACK", "PASSTHROUGH", <<>>, "")>>)>>,
        <<>>)

\* the macro fixture
macro_profile ==
    Profile("macro",
        <<Layer("base", "",
            <<Binding("BTN_SIDE", "MACRO", <<>>, "test_macro")>>)>>,
        <<MacroAction("test_macro",
            <<MacroStep("KEY_PRESS", "A", 0, <<>>),
              MacroStep("DELAY", "", 10, <<>>),
              MacroStep("KEY_PRESS", "B", 0, <<>>)>>, 1, 0)>>)

\* a macro that leaves a key down and one that runs twice with a pause
held_macro_profile ==
    Profile("held_macro",
        <<Layer("base", "",
            <<Binding("BTN_BACK", "MACRO", <<>>, "hold_macro"),
              Binding("BTN_EXTRA", "MACRO", <<>>, "repeat_macro")>>)>>,
        <<MacroAction("hold_macro",
            <<MacroStep("KEY_DOWN", "C", 0, <<>>)>>, 1, 0),
          MacroAction("repeat_macro",
            <<MacroStep("KEY_PRESS", "C", 0, <<>>)>>, 2, 5)>>)

hypershift_profile ==
    Profile("hypershift",
        <<Layer("base", "", <<Binding("BTN_SIDE", "KEY", <<"A">>, "")>>),
          Layer("shift", "BTN_EXTRA",
            <<Binding("BTN_SIDE", "KEY", <<"B">>, "")>>)>>,
        <<>>)

\* two shift layers; two keys bound to one output; a layer modifier that
\* also has a binding; a binding whose output is a layer modifier's code;
\* a key bound in a shift layer only
two_shift_profile ==
    Profile("two_shift",
        <<Layer("base", "",
            <<Binding("BTN_SIDE", "KEY", <<"A">>, ""),
              Binding("BTN_BACK", "KEY", <<"A">>, ""),
              Binding("BTN_EXTRA", "KEY", <<"C">>, "")>>),
          Layer("shift", "BTN_EXTRA",
            <<Binding("BTN_SIDE", "KEY", <<"B">>, "")>>),
          Layer("fn", "BTN_FORWARD",
            <<Binding("BTN_SIDE", "CHORD", <<"CTRL", "C">>, ""),
              Binding("BTN_BACK", "KEY", <<"MOUSE_EXTRA">>, ""),
              Binding("KEY_Q", "DISABLED", <<>>, "")>>)>>,
        <<>>)

\* names that resolve to no code: as the input of a binding, as the output
\* of a KEY binding, among the outputs of a CHORD, in the steps of a macro
inert_profile ==
    Profile("inert",
        <<Layer("base", "",
            <<Binding("NOT_A_KEY", "KEY", <<"A">>, ""),
              Binding("BTN_SIDE", "KEY", <<"NOT_A_KEY">>, ""),
              Binding("BTN_EXTRA", "CHORD", <<"CTRL", "NOT_A_KEY", "C">>, ""),
              Binding("BTN_BACK", "MACRO", <<>>, "inert_macro"),
              Binding("BTN_FORWARD", "KEY", <<"B">>, "")>>)>>,
        <<MacroAction("inert_macro",
            <<MacroStep("KEY_PRESS", "NOT_A_KEY", 0, <<>>),
              MacroStep("KEY_DOWN", "NOT_A_KEY", 0, <<>>),
              MacroStep("KEY_PRESS", "A", 0, <<>>),
              MacroStep("KEY_UP", "NOT_A_KEY", 0, <<>>)>>, 1, 0)>>)

\* macros that type text: "aB1", "a b<newline><tab>!" and a text with a
\* letter outside ASCII in both cases around an "A"
text_profile ==
    Profile("text",
        <<Layer("base", "",
            <<Binding("BTN_SIDE", "MACRO", <<>>, "mixed_text"),
              Binding("BTN_EXTRA", "MACRO", <<>>, "white_text"),
              Binding("BTN_BACK", "MACRO", <<>>, "accent_text")>>)>>,
        <<MacroAction("mixed_text",
            <<MacroStep("TEXT", "", 0, <<"a", "B", "1">>)>>, 1, 0),
          MacroAction("white_text",
            <<MacroStep("TEXT", "", 0,
                        <<"a", "sp", "b", "nl", "tab", "bang">>)>>, 1, 0),
          MacroAction("accent_text",
            <<MacroStep("TEXT", "", 0, <<"eacute", "A", "Eacute">>),
              MacroStep("TEXT", "", 0, <<>>)>>, 1, 0)>>)

Profiles == {empty_profile, simple_profile, macro_profile,
             held_macro_profile, hypershift_profile, two_shift_profile}

\* what dict.get returns for a code with no binding
NoBinding == Binding("", "NONE", <<>>, "")

-----------------------------------------------------------------------------
(* What a call does on the sink: uinput.write(EV_KEY, code, value)         *)
(* followed by uinput.syn(), or time.sleep(ms / 1000).                     *)

Key(code, value) == [kind |-> "key", code |-> code, value |-> value]
Sleep(ms) == [kind |-> "sleep", code |-> ms, value |-> 0]
down(code) == Key(code, 1)
up(code) == Key(code, 0)

\* the writes among the effects of a call
Writes(effs) == SelectSeq(effs, LAMBDA e : e.kind = "key")

-----------------------------------------------------------------------------
(* RemapEngine                                                             *)

\* the inner loop of _build_lookup_tables: one layer's bindings by code
RECURSIVE layer_bindings(_, _)
layer_bindings(bindings, acc) ==
    IF bindings = <<>> THEN acc
    ELSE LET binding == Head(bindings)
             code == schema_to_evdev_code(binding.input_code)
         IN layer_bindings(Tail(bindings),
                IF code # None THEN DictSet(acc, code, binding) ELSE acc)

RECURSIVE index_macros(_, _)
index_macros(macros, acc) ==
    IF macros = <<>> THEN acc
    ELSE index_macros(Tail(macros), DictSet(acc, Head(macros).id, Head(macros)))

RECURSIVE index_layers(_, _)
index_layers(layers, acc) ==
    IF layers = <<>> THEN acc
    ELSE LET layer == Head(layers)
             mod_code == schema_to_evdev_code(layer.hold_modifier_input_code)
             b == DictSet(acc.bindings, layer.id,
                          layer_bindings(layer.bindings, EmptyDict))
             m == IF layer.hold_modifier_input_code # "" /\ mod_code # None
                  THEN DictSet(acc.layer_modifiers, mod_code, layer.id)
                  ELSE acc.layer_modifiers
         IN index_layers(Tail(layers), [bindings |-> b, layer_modifiers |-> m])

\* _build_lookup_tables, from the tables as they are when it is called
_build_lookup_tables(p, bindings0, macros0, layer_modifiers0) ==
    LET t == index_layers(p.layers, [bindings |-> bindings0,
                                     layer_modifiers |-> layer_modifiers0])
    IN [bindings |-> t.bindings,
        macros |-> index_macros(p.macros, macros0),
        layer_modifiers |-> t.layer_modifiers]

_emit_key(code, value) == IF uinput THEN <<Key(code, value)>> ELSE <<>>

_get_binding(code) ==
    IF active_layer \in DOMAIN _bindings
       /\ DictGet(_bindings[active_layer], code, NoBinding) # NoBinding
    THEN _bindings[active_layer][code]
    ELSE IF "base" \in DOMAIN _bindings
         THEN DictGet(_bindings["base"], code, NoBinding)
         ELSE NoBinding

\* the characters _type_text is tried on, and str.upper / isalpha / isdigit
\* (eacute, Eacute: a letter outside ASCII in its two cases; bang: "!")
upper == [a |-> "A", b |-> "B", A |-> "A", B |-> "B",
          eacute |-> "Eacute", Eacute |-> "Eacute"]
isalpha(char) == char \in DOMAIN upper
isupper(char) == isalpha(char) /\ upper[char] = char
isdigit(char) == char \in {"1"}
char_to_key == [sp |-> "SPACE", nl |-> "ENTER", tab |-> "TAB"]

\* a mutant of _type_text: SHIFT is pressed for an uppercase letter and
\* never released
RECURSIVE _type_text_shift_kept(_)
_type_text_shift_kept(text) ==
    IF text = <<>> THEN <<>>
    ELSE LET char == Head(text)
             supported == isalpha(char) \/ isdigit(char)
                          \/ char \in DOMAIN char_to_key
             key == IF isalpha(char) THEN upper[char]
                    ELSE IF isdigit(char) THEN char
                    ELSE DictGet(char_to_key, char, "")
             needs_shift == isalpha(char) /\ isupper(char)
             code == schema_to_evdev_code(key)
             shift_code == schema_to_evdev_code("SHIFT")
             typed ==
                 (IF needs_shift /\ Truthy(shift_code)
                  THEN _emit_key(shift_code, 1) ELSE <<>>)
                 \o _emit_key(code, 1) \o <<Sleep(10)>> \o _emit_key(code, 0)
                 \o <<Sleep(10)>>
         IN (IF supported /\ Truthy(code) THEN typed ELSE <<>>)
            \o _type_text_shift_kept(Tail(text))

RECURSIVE _type_text(_)
_type_text(text) ==
    IF text = <<>> THEN <<>>
    ELSE LET char == Head(text)
             supported == isalpha(char) \/ isdigit(char)
                          \/ char \in DOMAIN char_to_key
             key == IF isalpha(char) THEN upper[char]
                    ELSE IF isdigit(char) THEN char
                    ELSE DictGet(char_to_key, char, "")
             needs_shift == isalpha(char) /\ isupper(char)
             code == schema_to_evdev_code(key)
             shift_code == schema_to_evdev_code("SHIFT")
             typed ==
                 (IF needs_shift /\ Truthy(shift_code)
                  THEN _emit_key(shift_code, 1) ELSE <<>>)
                 \o _emit_key(code, 1) \o <<Sleep(10)>> \o _emit_key(code, 0)
                 \o (IF needs_shift /\ Truthy(shift_code)
                     THEN _emit_key(shift_code, 0) ELSE <<>>)
                 \o <<Sleep(10)>>
         IN (IF supported /\ Truthy(code) THEN typed ELSE <<>>)
            \o _type_text(Tail(text))

_execute_macro_step(step) ==
    LET code == schema_to_evdev_code(step.key)
    IN CASE step.type = "KEY_DOWN" ->
              IF step.key # "" /\ Truthy(code) THEN _emit_key(code, 1) ELSE <<>>
         [] step.type = "KEY_UP" ->
              IF step.key # "" /\ Truthy(code) THEN _emit_key(code, 0) ELSE <<>>
         [] step.type = "KEY_PRESS" ->
              IF step.key # "" /\ Truthy(code)
              THEN _emit_key(code, 1) \o <<Sleep(10)>> \o _emit_key(code, 0)
              ELSE <<>>
         [] step.type = "DELAY" ->
              IF step.delay_ms # 0 THEN <<Sleep(step.delay_ms)>> ELSE <<>>
         [] step.type = "TEXT" ->
              IF step.text # <<>> THEN _type_text(step.text) ELSE <<>>
         [] OTHER -> <<>>

RECURSIVE execute_steps(_)
execute_steps(steps) ==
    IF steps = <<>> THEN <<>>
    ELSE _execute_macro_step(Head(steps)) \o execute_steps(Tail(steps))

\* a mutant of macro_iterations: the pause follows every iteration
RECURSIVE macro_iterations_pause_after_each(_, _)
macro_iterations_pause_after_each(macro, i) ==
    IF i >= macro.repeat_count THEN <<>>
    ELSE execute_steps(macro.steps)
         \o (IF macro.repeat_delay_ms > 0
             THEN <<Sleep(macro.repeat_delay_ms)>> ELSE <<>>)
         \o macro_iterations_pause_after_each(macro, i + 1)

\* the iterations i, i+1, ... of _execute_macro's loop
RECURSIVE macro_iterations(_, _)
macro_iterations(macro, i) ==
    IF i >= macro.repeat_count THEN <<>>
    ELSE execute_steps(macro.steps)
         \o (IF macro.repeat_delay_ms > 0 /\ i < macro.repeat_count - 1
             THEN <<Sleep(macro.repeat_delay_ms)>> ELSE <<>>)
         \o macro_iterations(macro, i + 1)

_execute_macro(macro) == macro_iterations(macro, 0)

\* a mutant of emit_keys: a name that does not resolve is written as it is
RECURSIVE emit_keys_unresolved_written(_, _)
emit_keys_unresolved_written(keys, value) ==
    IF keys = <<>> THEN <<>>
    ELSE _emit_key(schema_to_evdev_code(Head(keys)), value)
         \o emit_keys_unresolved_written(Tail(keys), value)

\* for key in keys: code = schema_to_evdev_code(key); if code: emit
RECURSIVE emit_keys(_, _)
emit_keys(keys, value) ==
    IF keys = <<>> THEN <<>>
    ELSE LET code == schema_to_evdev_code(Head(keys))
         IN (IF Truthy(code) THEN _emit_key(code, value) ELSE <<>>)
            \o emit_keys(Tail(keys), value)

\* a mutant of _handle_binding_down: a disabled key is passed to the sink
_handle_binding_down_disabled_passes(binding) ==
    CASE binding.action_type \in {"PASSTHROUGH", "DISABLED"} ->
           emit_keys(<<binding.input_code>>, 1)
      [] binding.action_type = "KEY" ->
           IF binding.output_keys # <<>>
           THEN emit_keys(<<binding.output_keys[1]>>, 1) ELSE <<>>
      [] binding.action_type = "CHORD" -> emit_keys(binding.output_keys, 1)
      [] binding.action_type = "MACRO" ->
           IF binding.macro_id # "" /\ binding.macro_id \in DOMAIN _macros
           THEN _execute_macro(_macros[binding.macro_id]) ELSE <<>>
      [] OTHER -> <<>>

_handle_binding_down(binding) ==
    CASE binding.action_type = "PASSTHROUGH" ->
           emit_keys(<<binding.input_code>>, 1)
      [] binding.action_type = "KEY" ->
           IF binding.output_keys # <<>>
           THEN emit_keys(<<binding.output_keys[1]>>, 1) ELSE <<>>
      [] binding.action_type = "CHORD" -> emit_keys(binding.output_keys, 1)
      [] binding.action_type = "MACRO" ->
           IF binding.macro_id # "" /\ binding.macro_id \in DOMAIN _macros
           THEN _execute_macro(_macros[binding.macro_id]) ELSE <<>>
      [] OTHER -> <<>>

\* a mutant of _handle_binding_up: the chord is released in press order
_handle_binding_up_in_order(binding) ==
    CASE binding.action_type = "PASSTHROUGH" ->
           emit_keys(<<binding.input_code>>, 0)
      [] binding.action_type = "KEY" ->
           IF binding.output_keys # <<>>
           THEN emit_keys(<<binding.output_keys[1]>>, 0) ELSE <<>>
      [] binding.action_type = "CHORD" -> emit_keys(binding.output_keys, 0)
      [] OTHER -> <<>>

_handle_binding_up(binding) ==
    CASE binding.action_type = "PASSTHROUGH" ->
           emit_keys(<<binding.input_code>>, 0)
      [] binding.action_type = "KEY" ->
           IF binding.output_keys # <<>>
           THEN emit_keys(<<binding.output_keys[1]>>, 0) ELSE <<>>
      [] binding.action_type = "CHORD" ->
           emit_keys(reversed(binding.output_keys), 0)
      [] OTHER -> <<>>

\* a mutant of on_layer_modifier: the repeat of a modifier is passed through
on_layer_modifier_repeat_passed(code, value) ==
    [handled |-> value # 2, effects |-> <<>>, pressed |-> pressed,
     active_layer |-> IF value = 1 THEN _layer_modifiers[code]
                      ELSE IF value = 0 THEN "base"
                      ELSE active_layer]

\* process_event, the code is a layer modifier
on_layer_modifier(code, value) ==
    [handled |-> TRUE, effects |-> <<>>, pressed |-> pressed,
     active_layer |-> IF value = 1 THEN _layer_modifiers[code]
                      ELSE IF value = 0 THEN "base"
                      ELSE active_layer]

\* a mutant of on_unbound: the press is recorded before the binding lookup
on_unbound_recorded(code, value) ==
    [handled |-> FALSE, effects |-> <<>>,
     pressed |-> IF value = 1 THEN pressed \cup {code} ELSE pressed,
     active_layer |-> active_layer]

\* process_event, no binding for the code: passed through
on_unbound(code, value) ==
    [handled |-> FALSE, effects |-> <<>>,
     pressed |-> pressed, active_layer |-> active_layer]

\* a mutant of on_binding: the repeat of a key presses its binding again
on_binding_repeat_fires(binding, code, value) ==
    IF value \in {1, 2}
    THEN [handled |-> TRUE, effects |-> _handle_binding_down(binding),
          pressed |-> pressed \cup {code}, active_layer |-> active_layer]
    ELSE IF value = 0
    THEN [handled |-> TRUE, effects |-> _handle_binding_up(binding),
          pressed |-> pressed \ {code}, active_layer |-> active_layer]
    ELSE [handled |-> FALSE, effects |-> <<>>,
          pressed |-> pressed, active_layer |-> active_layer]

\* process_event, the binding found for the code is handled
on_binding(binding, code, value) ==
    IF value = 1
    THEN [handled |-> TRUE, effects |-> _handle_binding_down(binding),
          pressed |-> pressed \cup {code}, active_layer |-> active_layer]
    ELSE IF value = 0
    THEN [handled |-> TRUE, effects |-> _handle_binding_up(binding),
          pressed |-> pressed \ {code}, active_layer |-> active_layer]
    ELSE IF value = 2
    THEN [handled |-> TRUE, effects |-> <<>>,
          pressed |-> pressed, active_layer |-> active_layer]
    ELSE [handled |-> FALSE, effects |-> <<>>,
          pressed |-> pressed, active_layer |-> active_layer]

\* a mutant of on_non_key: the type of the event is not looked at
on_non_key_as_key(event) ==
    IF event.code \in DOMAIN _layer_modifiers
    THEN on_layer_modifier(event.code, event.value)
    ELSE IF _get_binding(event.code) = NoBinding
    THEN on_unbound(event.code, event.value)
    ELSE on_binding(_get_binding(event.code), event.code, event.value)

\* process_event, an event that is not a key event: passed through
on_non_key(event) ==
    [handled |-> FALSE, effects |-> <<>>,
     pressed |-> pressed, active_layer |-> active_layer]

\* process_event: what it returns, writes and leaves in KeyState
process_event(event) ==
    IF event.type # ecodes.EV_KEY THEN on_non_key(event)
    ELSE IF event.code \in DOMAIN _layer_modifiers
    THEN on_layer_modifier(event.code, event.value)
    ELSE IF _get_binding(event.code) = NoBinding
    THEN on_unbound(event.code, event.value)
    ELSE on_binding(_get_binding(event.code), event.code, event.value)

\* list(self.state.pressed): the codes of a set, in some order
ListsOf(S) ==
    {l \in [1..Cardinality(S) -> S] : \A i, j \in 1..Cardinality(S) :
                                          l[i] = l[j] => i = j}

RECURSIVE release_codes(_)
release_codes(codes) ==
    IF codes = <<>> THEN <<>>
    ELSE _emit_key(Head(codes), 0) \o release_codes(Tail(codes))

\* reload_profile: the releases it writes, given the order of the set
reload_releases(codes) == release_codes(codes)

\* a reload that builds the new profile's entries over the tables as they are
reload_tables_kept(p) ==
    _build_lookup_tables(p, _bindings, _macros, _layer_modifiers)

\* reload_profile: the tables after clear() and _build_lookup_tables()
reload_tables(p) == _build_lookup_tables(p, EmptyDict, EmptyDict, EmptyDict)

-----------------------------------------------------------------------------
(* The events the engine is driven with                                    *)

InputCodes == {ecodes.BTN_SIDE, ecodes.BTN_EXTRA, ecodes.BTN_FORWARD,
               ecodes.BTN_BACK, ecodes.KEY_Q}

Ev(code, value) == [type |-> ecodes.EV_KEY, code |-> code, value |-> value]

\* key events (0 = up, 1 = down, 2 = repeat), a relative-motion event and
\* an absolute-axis event whose code is also the code of a key (KEY_Q)
Events == {Ev(c, v) : c \in InputCodes, v \in {0, 1, 2}}
          \cup {[type |-> ecodes.EV_REL, code |-> 0, value |-> 1],
                [type |-> ecodes.EV_ABS, code |-> ecodes.ABS_HAT0X,
                 value |-> 1]}

-----------------------------------------------------------------------------
(* Observers: what the sink and the user have seen                         *)

\* the codes down on the sink after the writes among effs
RECURSIVE ApplyWrites(_, _)
ApplyWrites(held, effs) ==
    IF effs = <<>> THEN held
    ELSE LET e == Head(effs)
         IN ApplyWrites(IF e.kind # "key" THEN held
                        ELSE IF e.value = 1 THEN held \cup {e.code}
                        ELSE IF e.value = 0 THEN held \ {e.code}
                        ELSE held,
                        Tail(effs))

\* the end-to-end scenarios S1..S5 of the specification
S1 == [profile |-> simple_profile,
       events |-> <<Ev(ecodes.BTN_SIDE, 1), Ev(ecodes.BTN_SIDE, 0)>>]
S2 == [profile |-> simple_profile,
       events |-> <<Ev(ecodes.BTN_EXTRA, 1), Ev(ecodes.BTN_EXTRA, 0)>>]
S3 == [profile |-> hypershift_profile,
       events |-> <<Ev(ecodes.BTN_EXTRA, 1), Ev(ecodes.BTN_SIDE, 1),
                    Ev(ecodes.BTN_SIDE, 0), Ev(ecodes.BTN_EXTRA, 0)>>]
S4 == [profile |-> hypershift_profile,
       events |-> <<Ev(ecodes.BTN_SIDE, 1), Ev(ecodes.BTN_EXTRA, 1),
                    Ev(ecodes.BTN_SIDE, 0), Ev(ecodes.BTN_EXTRA, 0)>>]
S5 == [profile |-> simple_profile,
       events |-> <<Ev(ecodes.BTN_FORWARD, 1), Ev(ecodes.BTN_FORWARD, 0),
                    Ev(ecodes.BTN_BACK, 1), Ev(ecodes.BTN_BACK, 0)>>]
Scenarios == {S1, S2, S3, S4, S5}

IsPrefix(s, t) == Len(s) <= Len(t) /\ SubSeq(t, 1, Len(s)) = s

\* hist once the run has left every scenario
Off == <<[type |-> None, code |-> None, value |-> None]>>

\* the run so far, with event e, is still the beginning of a scenario
InScenario(e) ==
    /\ hist # Off
    /\ uinput
    /\ \E s \in Scenarios : s.profile = profile
                            /\ IsPrefix(Append(hist, e), s.events)

NoFired == [c \in InputCodes |-> NoBinding]

Call(name, event, p) == [name |-> name, event |-> event, profile |-> p]

\* a call on the keycode map, and none yet
Lookup(fn, name) == [fn |-> fn, name |-> name]
NoLookup == Lookup("", "")
NoEvent == [type |-> None, code |-> None, value |-> None]

-----------------------------------------------------------------------------
(* MacroRecorder (services/macro_engine/recorder.py), as section 4.4 of    *)
(* the specification and tests/test_macro_recorder.py describe it.         *)
(* Timestamps are in milliseconds.                                         *)

\* the kernel names of keys and buttons: ecodes.KEY and ecodes.BTN by code
KeyBtnNames ==
    (DOMAIN ecodes) \ {"EV_SYN", "EV_KEY", "EV_REL", "EV_ABS", "ABS_HAT0X"}

evdev_event_to_schema(event_type, event_code) ==
    IF event_type = ecodes.EV_KEY
       /\ \E n \in KeyBtnNames : ecodes[n] = event_code
    THEN evdev_code_to_schema(CHOOSE n \in KeyBtnNames : ecodes[n] = event_code)
    ELSE ""

RecordedEvent(timestamp, code, value, key_name) ==
    [timestamp |-> timestamp, code |-> code, value |-> value,
     key_name |-> key_name]

RecorderConfig(min_delay_ms, max_delay_ms, record_delays, merge_press_release) ==
    [min_delay_ms |-> min_delay_ms, max_delay_ms |-> max_delay_ms,
     record_delays |-> record_delays,
     merge_press_release |-> merge_press_release]

\* MacroRecorder(): the defaults
DefaultConfig == RecorderConfig(10, 5000, TRUE, TRUE)

\* a press and its release no further apart are one KEY_PRESS
MergeWindow == 100

\* no macro returned
NoMacro == MacroAction("", <<>>, 0, 0)

Min(a, b) == IF a <= b THEN a ELSE b

\* a mutant of merges: a press merges with the release of any key
merges_any_key(events, i, cfg) ==
    /\ cfg.merge_press_release
    /\ events[i].value = 1
    /\ i + 1 <= Len(events)
    /\ events[i + 1].value = 0
    /\ events[i + 1].timestamp - events[i].timestamp <= MergeWindow

\* a mutant of merges: a press and its release merge however far apart
merges_any_gap(events, i, cfg) ==
    /\ cfg.merge_press_release
    /\ events[i].value = 1
    /\ i + 1 <= Len(events)
    /\ events[i + 1].code = events[i].code
    /\ events[i + 1].value = 0

\* the event at index i is a press that is merged with the event after it
merges(events, i, cfg) ==
    /\ cfg.merge_press_release
    /\ events[i].value = 1
    /\ i + 1 <= Len(events)
    /\ events[i + 1].code = events[i].code
    /\ events[i + 1].value = 0
    /\ events[i + 1].timestamp - events[i].timestamp <= MergeWindow

\* a mutant of delay_before: a gap of exactly min_delay_ms gives no delay
delay_before_above_min(t, prev, cfg) ==
    IF prev # None /\ cfg.record_delays /\ t - prev > cfg.min_delay_ms
    THEN <<MacroStep("DELAY", "", Min(t - prev, cfg.max_delay_ms), <<>>)>>
    ELSE <<>>

\* the DELAY step before a step at time t, the previous step emitted at prev
delay_before(t, prev, cfg) ==
    IF prev # None /\ cfg.record_delays /\ t - prev >= cfg.min_delay_ms
    THEN <<MacroStep("DELAY", "", Min(t - prev, cfg.max_delay_ms), <<>>)>>
    ELSE <<>>

\* the compilation walk from index i, the previous step emitted at prev
RECURSIVE compile_from(_, _, _, _)
compile_from(events, i, prev, cfg) ==
    IF i > Len(events) THEN <<>>
    ELSE LET e == events[i]
             merged == merges(events, i, cfg)
             step == MacroStep(IF merged THEN "KEY_PRESS"
                               ELSE IF e.value = 1 THEN "KEY_DOWN"
                               ELSE "KEY_UP",
                               e.key_name, 0, <<>>)
         IN delay_before(e.timestamp, prev, cfg) \o <<step>>
            \o compile_from(events,
                            IF merged THEN i + 2 ELSE i + 1,
                            IF merged THEN events[i + 1].timestamp
                            ELSE e.timestamp,
                            cfg)

\* the MacroAction stop() returns for a buffer
build_macro(events, cfg) ==
    MacroAction("recorded_macro", compile_from(events, 1, None, cfg), 1, 0)

\* a call on the recorder
RecCall(name, event) == [name |-> name, event |-> event]

\* a recorder just made, with configuration cfg
RecorderMade(cfg) ==
    /\ recording = FALSE
    /\ _events = <<>>
    /\ config = cfg
    /\ rec_op = RecCall("__init__", NoEvent)
    /\ accepted = FALSE
    /\ compiled = NoMacro

-----------------------------------------------------------------------------
(* The daemon orchestrator, services/remap_daemon/daemon.py: its source is *)
(* not part of the tree, so setup, cleanup and the dispatch loop follow    *)
(* section 4.5 and 5 of the specification and tests/test_daemon.py.        *)

DeviceIds == {"razer_mouse_001", "razer_keyboard_001"}

\* what the daemon finds when it starts: the input_devices of the active
\* profile, for each device whether it is there and can be grabbed ("ok"),
\* has no event path ("missing") or refuses the grab ("denied"), and
\* whether UInput() succeeds
World(input_devices, devices, sink_ok) ==
    [input_devices |-> input_devices, devices |-> devices,
     sink_ok |-> sink_ok]

\* a call on the daemon: what it returned, whether it raised, how often it
\* called ungrab on each device, release_all_keys on the engine and close
\* on the sink, and what it wrote on the sink of its own
DaemonCall(name, result, error, ungrabs, releases, closes, forwarded) ==
    [name |-> name, result |-> result, raised |-> error, ungrabs |-> ungrabs,
     releases |-> releases, closes |-> closes, forwarded |-> forwarded]

NoUngrabs == [id \in DeviceIds |-> 0]

\* _grab_devices: the devices grabbed in the order of the profile, up to
\* the first that is missing or denied
RECURSIVE grab_from(_, _, _)
grab_from(ids, devices, grabbed) ==
    IF ids = <<>> THEN [ok |-> TRUE, grabbed |-> grabbed]
    ELSE IF devices[Head(ids)] # "ok" THEN [ok |-> FALSE, grabbed |-> grabbed]
    ELSE grab_from(Tail(ids), devices, grabbed \cup {Head(ids)})

_grab_devices(w) ==
    IF w.input_devices = <<>> THEN [ok |-> FALSE, grabbed |-> {}]
    ELSE grab_from(w.input_devices, w.devices, {})

\* a mutant of _passthrough_event: a sync follows every event
_passthrough_event_always_syn(event) ==
    <<[call |-> "write_event", event |-> event],
      [call |-> "syn", event |-> NoEvent]>>

\* _passthrough_event: the raw event, and a sync unless it is one itself
_passthrough_event(event) ==
    IF event.type = ecodes.EV_SYN
    THEN <<[call |-> "write_event", event |-> event]>>
    ELSE <<[call |-> "write_event", event |-> event],
           [call |-> "syn", event |-> NoEvent]>>

\* RemapDaemon(): nothing set up, in a world w
DaemonMade(w) ==
    /\ world = w
    /\ engine = FALSE
    /\ daemon_uinput = FALSE
    /\ grabbed_devices = {}
    /\ running = FALSE
    /\ daemon_op = DaemonCall("__init__", FALSE, FALSE, NoUngrabs, 0, 0, <<>>)
    /\ dispatching = NoEvent
    /\ thread = "main"

-----------------------------------------------------------------------------
(* The hotkey listener of apps/tray/hotkeys.py                             *)

\* pynput's keys: keyboard.Key members and keyboard.KeyCode values; a
\* KeyCode without char has char "", one without vk has vk None
keyboard_Key(name) ==
    [kind |-> "Key", name |-> name, char |-> "", vk |-> None]
keyboard_KeyCode(char, vk) ==
    [kind |-> "KeyCode", name |-> "", char |-> char, vk |-> vk]

\* a HotkeyBinding of the settings
HotkeyBinding(modifiers, key, enabled) ==
    [modifiers |-> modifiers, key |-> key, enabled |-> enabled]

\* str.lower() on the strings that occur
lower(str) ==
    CASE str = "A" -> "a"
      [] str = "B" -> "b"
      [] str = "F1" -> "f1"
      [] OTHER -> str

\* str(vk - 48) for 49 <= vk <= 57, chr(vk).lower() for 65 <= vk <= 90
DigitNames == <<"1", "2", "3", "4", "5", "6", "7", "8", "9">>
LetterNames == <<"a", "b", "c", "d", "e", "f", "g", "h", "i", "j", "k", "l",
                 "m", "n", "o", "p", "q", "r", "s", "t", "u", "v", "w", "x",
                 "y", "z">>
FunctionKeys == {"f1", "f2", "f3", "f4", "f5", "f6", "f7", "f8", "f9", "f10",
                 "f11", "f12"}

\* _normalize_key: the comparable string of a key, "" standing for None
_normalize_key(key) ==
    IF key.kind = "Key"
    THEN IF key.name \in {"ctrl", "ctrl_l", "ctrl_r"} THEN "ctrl"
         ELSE IF key.name \in {"shift", "shift_l", "shift_r"} THEN "shift"
         ELSE IF key.name \in {"alt", "alt_l", "alt_r"} THEN "alt"
         ELSE IF key.name \in FunctionKeys THEN key.name
         ELSE ""
    ELSE IF key.char # "" THEN lower(key.char)
    ELSE IF key.vk # None /\ 49 <= key.vk /\ key.vk <= 57
    THEN DigitNames[key.vk - 48]
    ELSE IF key.vk # None /\ 65 <= key.vk /\ key.vk <= 90
    THEN LetterNames[key.vk - 64]
    ELSE ""

\* _check_binding: the binding matches the keys held
_check_binding(binding, keys) ==
    /\ binding.enabled
    /\ binding.key # ""
    /\ \A m \in 1..Len(binding.modifiers) : binding.modifiers[m] \in keys
    /\ lower(binding.key) \in keys

\* _on_press: the keys held and the bindings triggered after it, and the
\* index on_profile_switch is called with (None if it is not called)
_on_press(key, bindings, keys, triggered) ==
    LET normalized == _normalize_key(key)
        held == IF normalized # "" THEN keys \cup {normalized} ELSE keys
        matching == {i \in 0..(Len(bindings) - 1) :
                        /\ i \notin triggered
                        /\ _check_binding(bindings[i + 1], held)}
        first == CHOOSE i \in matching : \A j \in matching : i <= j
    IN IF matching = {}
       THEN [current_keys |-> held, _triggered |-> triggered, switch |-> None]
       ELSE [current_keys |-> held, _triggered |-> triggered \cup {first},
             switch |-> first]

\* a mutant of _on_release: the release of any key forgets every trigger
_on_release_clears_all(key, bindings, keys, triggered) ==
    LET normalized == _normalize_key(key)
    IN IF normalized = ""
       THEN [current_keys |-> keys, _triggered |-> triggered]
       ELSE [current_keys |-> keys \ {normalized}, _triggered |-> {}]

\* _on_release: the keys held and the bindings triggered after it
_on_release(key, bindings, keys, triggered) ==
    LET normalized == _normalize_key(key)
        held == keys \ {normalized}
    IN IF normalized = ""
       THEN [current_keys |-> keys, _triggered |-> triggered]
       ELSE [current_keys |-> held,
             _triggered |-> {i \in triggered :
                                \/ i >= Len(bindings)
                                \/ _check_binding(bindings[i + 1], held)}]

\* a callback of the listener, and the key of no callback
HotkeyCall(name, key) == [name |-> name, key |-> key]
NoKey == [kind |-> "", name |-> "", char |-> "", vk |-> None]

\* settings.hotkeys.profile_hotkeys: ctrl+1, ctrl+shift+1 and a disabled
\* ctrl+2
HotkeyBindings ==
    <<HotkeyBinding(<<"ctrl">>, "1", TRUE),
      HotkeyBinding(<<"ctrl", "shift">>, "1", TRUE),
      HotkeyBinding(<<"ctrl">>, "2", FALSE)>>

\* settings.hotkeys.profile_hotkeys: ctrl+1, ctrl+shift+1, a disabled
\* ctrl+2 and an enabled binding with no key
ListenedBindings ==
    <<HotkeyBinding(<<"ctrl">>, "1", TRUE),
      HotkeyBinding(<<"ctrl", "shift">>, "1", TRUE),
      HotkeyBinding(<<"ctrl">>, "2", FALSE),
      HotkeyBinding(<<"ctrl">>, "", TRUE)>>

\* the list after the settings were edited: a binding put in front of
\* ctrl+1, the others taken out
MovedBindings ==
    <<HotkeyBinding(<<"ctrl">>, "2", TRUE),
      HotkeyBinding(<<"ctrl">>, "1", TRUE)>>

\* HotkeyListener(on_profile_switch, settings_manager), not started, the
\* settings holding bindings, and the queue of intents it feeds empty
ListenerMadeWith(bindings) ==
    /\ current_keys = {}
    /\ _triggered = {}
    /\ profile_hotkeys = bindings
    /\ listener = FALSE
    /\ queue = <<>>
    /\ hk_op = HotkeyCall("__init__", NoKey)
    /\ switched = None
    /\ held_since_switch = {}
    /\ combo_switches = 0

ListenerMade == ListenerMadeWith(ListenedBindings)

\* the switches counted while one set of keys is held: more count as this
MaxComboSwitches == 2

\* what the observers see of a callback: r is what _on_press or
\* _on_release returned for key
Heard(name, key, bindings, r, switch) ==
    /\ hk_op' = HotkeyCall(name, key)
    /\ switched' = switch
    /\ held_since_switch' =
          IF name = "_on_press"
          THEN IF switch # None THEN held_since_switch \cup {switch}
               ELSE held_since_switch
          ELSE {i \in held_since_switch :
                  /\ i < Len(bindings)
                  /\ bindings[i + 1].enabled
                  /\ bindings[i + 1].key # ""
                  /\ lower(bindings[i + 1].key) \in r.current_keys
                  /\ \A m \in DOMAIN bindings[i + 1].modifiers :
                       bindings[i + 1].modifiers[m] \in r.current_keys}
    /\ combo_switches' =
          LET n == (IF r.current_keys = current_keys THEN combo_switches
                    ELSE 0)
                   + (IF switch # None THEN 1 ELSE 0)
          IN IF n > MaxComboSwitches THEN MaxComboSwitches ELSE n

-----------------------------------------------------------------------------
(* services.openrazer_bridge: OpenRazerBridge and the devices on DBus      *)

\* the serials asked for: two devices the daemon may list, and one it
\* never lists
Serials == {"PM1234567890", "KB0987654321", "UNKNOWN123"}

\* a device object on the bus: what getBrightness, getDPI and getBattery
\* return, None or the empty list standing for a method that raises
BusDevice(there, brightness, dpi, battery) ==
    [there |-> there, brightness |-> brightness, dpi |-> dpi,
     battery |-> battery]
NotOnBus == BusDevice(FALSE, None, <<>>, None)

\* no device listed at all
NoBus == [serial \in Serials |-> NotOnBus]

\* RazerDevice, with the defaults of the dataclass
RazerDevice(serial) ==
    [serial |-> serial, has_lighting |-> FALSE, has_brightness |-> FALSE,
     has_dpi |-> FALSE, has_battery |-> FALSE, brightness |-> 100,
     dpi |-> <<800, 800>>, battery_level |-> -1]

\* what dict.get and _get_device_info return for no device
NoRazerDevice == RazerDevice("")

\* _detect_capabilities(dbus_dev, device)
_detect_capabilities(dbus_dev, device) ==
    LET lit == IF dbus_dev.brightness # None
               THEN [device EXCEPT !.brightness = dbus_dev.brightness,
                                   !.has_brightness = TRUE,
                                   !.has_lighting = TRUE]
               ELSE device
        dpi == dbus_dev.dpi
        pointed == IF Len(dpi) >= 1
                   THEN [lit EXCEPT !.dpi = IF Len(dpi) >= 2
                                            THEN <<dpi[1], dpi[2]>>
                                            ELSE <<dpi[1], dpi[1]>>,
                                    !.has_dpi = TRUE]
                   ELSE lit
    IN IF dbus_dev.battery # None
       THEN [pointed EXCEPT !.battery_level = dbus_dev.battery,
                            !.has_battery = TRUE]
       ELSE pointed

\* _get_device_info(object_path, serial_hint): bus.get works (got) or raises
_get_device_info(bus, serial, got) ==
    IF got THEN _detect_capabilities(bus[serial], RazerDevice(serial))
    ELSE NoRazerDevice

\* what the bus does during one call of the bridge: connecting works,
\* getDevices works, the listed device objects bus.get can fetch during
\* discovery, bus.get works in a setter, the device's setter works
BusAnswers ==
    [connect : BOOLEAN, listed : BOOLEAN,
     got : SUBSET {"PM1234567890", "KB0987654321"},
     fetched : BOOLEAN, set : BOOLEAN]

\* the answers that differ in what a rescan does: once connected,
\* connecting is not tried; not connected, nothing is listed; nothing
\* listed, nothing is fetched; only devices on the bus are listed
Rescanning(a) ==
    /\ _daemon => a.connect
    /\ ~(_daemon \/ a.connect) => ~a.listed
    /\ a.got \subseteq IF a.listed THEN {serial \in Serials : dbus[serial].there}
                       ELSE {}

\* the answers that differ in what a setter does once it has its device:
\* a device object that was not fetched is not called
Setting(a) == ~a.fetched => ~a.set

\* the answers that differ in what discover_devices() does, and in what a
\* call for serial does: with the device cached there is no rescan
RescanAnswers ==
    {a \in BusAnswers : Rescanning(a) /\ a.fetched /\ a.set}
AnswersFor(serial) ==
    IF serial \in DOMAIN _devices
    THEN {a \in BusAnswers : a.connect /\ a.listed /\ a.got = {} /\ Setting(a)}
    ELSE {a \in BusAnswers : Rescanning(a) /\ Setting(a)}

\* discover_devices(): _daemon and _devices after it
discover_devices(bus, daemon, devices, a) ==
    LET connected == daemon \/ a.connect
        listing == IF connected /\ a.listed
                   THEN {serial \in Serials : bus[serial].there} ELSE {}
        found == {serial \in listing :
                     _get_device_info(bus, serial, serial \in a.got)
                        # NoRazerDevice}
    IN [_daemon |-> connected,
        _devices |-> [serial \in (DOMAIN devices) \cup found |->
                         IF serial \in found
                         THEN _get_device_info(bus, serial, TRUE)
                         ELSE devices[serial]],
        found |-> found]

\* get_device(serial): the device, and _daemon and _devices after it
get_device(bus, daemon, devices, serial, a) ==
    IF serial \in DOMAIN devices
    THEN [device |-> devices[serial], _daemon |-> daemon,
          _devices |-> devices, rescanned |-> FALSE]
    ELSE LET d == discover_devices(bus, daemon, devices, a)
         IN [device |-> DictGet(d._devices, serial, NoRazerDevice),
             _daemon |-> d._daemon, _devices |-> d._devices,
             rescanned |-> TRUE]

\* a call on the bridge as the observers see it: what it returned and the
\* setter calls it made on device objects
BridgeCall(name, serial, value, result, made, rescanned) ==
    [name |-> name, serial |-> serial, value |-> value, result |-> result,
     made |-> made, rescanned |-> rescanned]

\* OpenRazerBridge(), with the daemon's devices as they are
BridgeMade(bus) ==
    /\ dbus = bus
    /\ _daemon = FALSE
    /\ _devices = EmptyDict
    /\ bridge_op = BridgeCall("__init__", "", <<>>, FALSE, <<>>, FALSE)

-----------------------------------------------------------------------------
(* services.macro_engine.recorder: DeviceMacroRecorder                     *)

\* DeviceMacroRecorder(device_path, stop_key="q"): the stop key uppercased
stop_key == "Q"

\* DeviceMacroRecorder made, record_from_device not called yet
DeviceRecorderMade ==
    /\ device_grabbed = FALSE
    /\ position = "made"
    /\ dev_grabs = 0
    /\ dev_ungrabs = 0
    /\ stop_pressed = FALSE
    /\ polls = 0

-----------------------------------------------------------------------------
(* The state machine                                                       *)

\* the number of calls a run makes on the engine
MaxCalls == 6

\* no process_event call is in progress
NotWaiting ==
    [event |-> NoEvent, pc |-> "", binding |-> NoBinding, done |-> <<>>,
     rest |-> <<>>, handled |-> FALSE, layer |-> "", replaced |-> FALSE]

\* no reload_profile call is in progress
NotReloading ==
    [pc |-> "", p |-> Profile("", <<>>, <<>>), codes |-> <<>>,
     done |-> <<>>, macros |-> <<>>, layers |-> <<>>]

\* the call sleeps before it returns
HasSleep(effs) == \E i \in DOMAIN effs : effs[i].kind = "sleep"

\* what a call does up to and with its next time.sleep, and after it
RECURSIVE UntilSleep(_)
UntilSleep(effs) ==
    IF effs = <<>> THEN <<>>
    ELSE IF Head(effs).kind = "sleep" THEN <<Head(effs)>>
    ELSE <<Head(effs)>> \o UntilSleep(Tail(effs))
AfterSleep(effs) == SubSeq(effs, Len(UntilSleep(effs)) + 1, Len(effs))

\* RemapEngine(profile), and the keycode map imported
EngineMadeFor(profiles) ==
    /\ profile \in profiles
    /\ pressed = {}
    /\ active_layer = "base"
    /\ uinput = FALSE
    /\ LET t == _build_lookup_tables(profile, EmptyDict, EmptyDict, EmptyDict)
       IN /\ _bindings = t.bindings
          /\ _macros = t.macros
          /\ _layer_modifiers = t.layer_modifiers
    /\ op = Call("__init__", NoEvent, profile.id)
    /\ handled = FALSE
    /\ raised = FALSE
    /\ effects = <<>>
    /\ sink_down = {}
    /\ phys_down = {}
    /\ press_consumed = {}
    /\ waiting = NotWaiting
    /\ reloading = NotReloading
    /\ fired = NoFired
    /\ modifier_held = None
    /\ hist = <<>>
    /\ sink = <<>>
    /\ calls = 0
    /\ lookup = NoLookup
    /\ answer = None

EngineMade == EngineMadeFor(Profiles)

\* an engine made for a profile, and beside it a recorder with the defaults
\* the world of the daemon's tests: one device, there and grabbable
DefaultWorld ==
    World(<<"razer_mouse_001">>, [id \in DeviceIds |-> "ok"], TRUE)

Init ==
    /\ EngineMade /\ RecorderMade(DefaultConfig)
    /\ DaemonMade(DefaultWorld) /\ ListenerMade
    /\ BridgeMade(NoBus) /\ DeviceRecorderMade

set_uinput ==
    /\ calls < MaxCalls
    /\ waiting = NotWaiting
    /\ calls' = calls + 1
    /\ uinput' = TRUE
    /\ op' = Call("set_uinput", NoEvent, "")
    /\ handled' = FALSE
    /\ raised' = FALSE
    /\ effects' = <<>>
    /\ UNCHANGED <<profile, pressed, active_layer, _bindings, _macros,
                   _layer_modifiers, sink_down, phys_down, press_consumed,
                   waiting, reloading, fired, modifier_held, hist, sink>>
    /\ UNCHANGED <<keymap_vars, recorder_vars, daemon_vars>>
    /\ UNCHANGED <<bridge_vars, device_vars>>

\* the binding process_event(event) resolves when it is called, if it
\* resolves one
BindingOf(event) ==
    IF /\ event.type = ecodes.EV_KEY
       /\ event.code \notin DOMAIN _layer_modifiers
    THEN _get_binding(event.code)
    ELSE NoBinding

\* what the observers see of a process_event call when it returns: the
\* value returned and all that the call did on the sink, binding being the
\* binding the call resolved and modifier that it found the code to be a
\* layer modifier
ReturnedAs(event, binding, modifier, value, done) ==
    LET key == event.type = ecodes.EV_KEY
        bound == binding # NoBinding
    IN /\ handled' = value
       /\ effects' = done
       /\ raised' = FALSE
       /\ op' = Call("process_event", event, "")
       /\ phys_down' = IF key /\ event.value = 1
                       THEN phys_down \cup {event.code}
                       ELSE IF key /\ event.value = 0
                       THEN phys_down \ {event.code}
                       ELSE phys_down
       /\ press_consumed' =
              IF key /\ event.value = 1
              THEN IF value THEN press_consumed \cup {event.code}
                   ELSE press_consumed \ {event.code}
              ELSE IF key /\ event.value = 0
              THEN press_consumed \ {event.code}
              ELSE press_consumed
       /\ fired' = IF bound /\ event.value = 1
                   THEN [fired EXCEPT ![event.code] = binding]
                   ELSE IF key /\ event.value = 0
                   THEN [fired EXCEPT ![event.code] = NoBinding]
                   ELSE fired
       /\ modifier_held' =
              IF modifier
              THEN IF event.value = 1 THEN event.code
                   ELSE IF event.value = 0 /\ modifier_held = event.code
                   THEN None
                   ELSE modifier_held
              ELSE modifier_held
       /\ hist' = IF InScenario(event) THEN Append(hist, event) ELSE Off
       /\ sink' = IF InScenario(event) THEN sink \o Writes(done)
                  ELSE <<>>

\* the same of a call that no reload_profile runs beside
Returned(event, binding, value, done) ==
    ReturnedAs(event, binding,
               event.type = ecodes.EV_KEY
                   /\ event.code \in DOMAIN _layer_modifiers,
               value, done)

\* process_event(event), a call that does not sleep: the call and what the
\* observers see of it
ProcessEventOf(event) ==
    LET r == process_event(event)
    IN /\ pressed' = r.pressed
       /\ active_layer' = r.active_layer
       /\ sink_down' = ApplyWrites(sink_down, r.effects)
       /\ Returned(event, BindingOf(event), r.handled, r.effects)
       /\ UNCHANGED <<profile, uinput, _bindings, _macros, _layer_modifiers,
                      waiting, reloading>>

\* process_event(event) up to its first time.sleep: KeyState is changed and
\* the writes before the sleep are made; nothing is returned yet
EnterEventOf(event) ==
    LET r == process_event(event)
        first == UntilSleep(r.effects)
    IN /\ pressed' = r.pressed
       /\ active_layer' = r.active_layer
       /\ sink_down' = ApplyWrites(sink_down, first)
       /\ effects' = first
       /\ waiting' = [event |-> event, pc |-> "sleep",
                      binding |-> BindingOf(event), done |-> first,
                      rest |-> AfterSleep(r.effects), handled |-> r.handled,
                      layer |-> "", replaced |-> FALSE]
       /\ op' = Call("time.sleep", event, "")
       /\ handled' = FALSE
       /\ raised' = FALSE
       /\ UNCHANGED <<profile, uinput, _bindings, _macros, _layer_modifiers,
                      phys_down, press_consumed, fired, modifier_held, hist,
                      sink, reloading>>

\* the sleeping call wakes: it goes on to its next time.sleep, or to its
\* end and returns
ResumeEventOf ==
    LET next == UntilSleep(waiting.rest)
    IN /\ sink_down' = ApplyWrites(sink_down, next)
       /\ IF HasSleep(waiting.rest)
          THEN /\ waiting' = [waiting EXCEPT !.done = waiting.done \o next,
                                             !.rest = AfterSleep(waiting.rest)]
               /\ effects' = waiting.done \o next
               /\ op' = Call("time.sleep", waiting.event, "")
               /\ handled' = FALSE
               /\ raised' = FALSE
               /\ UNCHANGED <<phys_down, press_consumed, fired,
                              modifier_held, hist, sink>>
          ELSE /\ waiting' = NotWaiting
               /\ Returned(waiting.event, waiting.binding, waiting.handled,
                           waiting.done \o next)
       /\ UNCHANGED <<profile, pressed, active_layer, uinput, _bindings,
                      _macros, _layer_modifiers, reloading>>

\* process_event on one of events, called while no call is in progress
ProcessEventAmong(events) ==
    /\ calls < MaxCalls
    /\ waiting = NotWaiting
    /\ calls' = calls + 1
    /\ \E event \in events :
         IF HasSleep(process_event(event).effects)
         THEN EnterEventOf(event)
         ELSE ProcessEventOf(event)
    /\ UNCHANGED <<keymap_vars, recorder_vars, daemon_vars>>
    /\ UNCHANGED <<bridge_vars, device_vars>>

ProcessEvent == ProcessEventAmong(Events)

\* the call in time.sleep goes on
ResumeEvent ==
    /\ waiting # NotWaiting
    /\ ResumeEventOf
    /\ UNCHANGED calls
    /\ UNCHANGED <<keymap_vars, recorder_vars, daemon_vars>>
    /\ UNCHANGED <<bridge_vars, device_vars>>

\* a reload that swaps the profile and the tables and keeps the layer
ReloadProfileTo_keeps_layer(p, codes) ==
    LET t == reload_tables(p)
    IN /\ effects' = reload_releases(codes)
       /\ sink_down' = ApplyWrites(sink_down, reload_releases(codes))
       /\ profile' = p
       /\ pressed' = {}
       /\ _bindings' = t.bindings
       /\ _macros' = t.macros
       /\ _layer_modifiers' = t.layer_modifiers
       /\ op' = Call("reload_profile", NoEvent, p.id)
       /\ handled' = FALSE
       /\ raised' = FALSE
       /\ fired' = NoFired
       /\ modifier_held' = None
       /\ hist' = Off
       /\ sink' = <<>>
       /\ UNCHANGED <<uinput, phys_down, press_consumed, active_layer,
                      waiting, reloading>>

\* reload_profile(p), list(self.state.pressed) being codes
ReloadProfileTo(p, codes) ==
    LET t == reload_tables(p)
    IN /\ effects' = reload_releases(codes)
       /\ sink_down' = ApplyWrites(sink_down, reload_releases(codes))
       /\ profile' = p
       /\ pressed' = {}
       /\ active_layer' = "base"
       /\ _bindings' = t.bindings
       /\ _macros' = t.macros
       /\ _layer_modifiers' = t.layer_modifiers
       /\ op' = Call("reload_profile", NoEvent, p.id)
       /\ handled' = FALSE
       /\ raised' = FALSE
       /\ fired' = NoFired
       /\ modifier_held' = None
       /\ hist' = Off
       /\ sink' = <<>>
       /\ UNCHANGED <<uinput, phys_down, press_consumed, waiting,
                      reloading>>

\* reload_profile on one of profiles, called by the thread that calls
\* process_event, hence between two events and with no other thread in the
\* engine: the whole call, from the releases to the tables rebuilt
ReloadProfileAmong(profiles) ==
    /\ calls < MaxCalls
    /\ waiting = NotWaiting
    /\ reloading = NotReloading
    /\ calls' = calls + 1
    /\ \E p \in profiles : \E codes \in ListsOf(pressed) :
        ReloadProfileTo(p, codes)
    /\ UNCHANGED <<keymap_vars, recorder_vars, daemon_vars>>
    /\ UNCHANGED <<bridge_vars, device_vars>>

ReloadProfile == ReloadProfileAmong(Profiles)

\* RemapEngine has no release_all_keys: the call raises AttributeError
ReleaseAllKeysRaises ==
    /\ raised' = TRUE
    /\ op' = Call("release_all_keys", NoEvent, "")
    /\ handled' = FALSE
    /\ effects' = <<>>
    /\ hist' = Off
    /\ sink' = <<>>
    /\ UNCHANGED <<profile, pressed, active_layer, uinput, _bindings, _macros,
                   _layer_modifiers, sink_down, phys_down, press_consumed,
                   waiting, reloading, fired, modifier_held>>

ReleaseAllKeys ==
    /\ calls < MaxCalls
    /\ waiting = NotWaiting
    /\ calls' = calls + 1
    /\ ReleaseAllKeysRaises
    /\ UNCHANGED <<keymap_vars, recorder_vars, daemon_vars>>
    /\ UNCHANGED <<bridge_vars, device_vars>>

Next ==
    set_uinput \/ ProcessEvent \/ ResumeEvent \/ ReloadProfile
    \/ ReleaseAllKeys

Spec == Init /\ [][Next]_vars

-----------------------------------------------------------------------------
(* The engine on profiles with names that do not resolve and with text     *)

EdgeProfiles == {inert_profile, text_profile}

EdgeInit ==
    /\ EngineMadeFor(EdgeProfiles) /\ RecorderMade(DefaultConfig)
    /\ DaemonMade(DefaultWorld) /\ ListenerMade
    /\ BridgeMade(NoBus) /\ DeviceRecorderMade

EdgeReloadProfile == ReloadProfileAmong(EdgeProfiles)

EdgeNext ==
    set_uinput \/ ProcessEvent \/ ResumeEvent \/ EdgeReloadProfile
    \/ ReleaseAllKeys

SpecEdge == EdgeInit /\ [][EdgeNext]_vars

-----------------------------------------------------------------------------
(* The keycode map on its own: its two functions called on names           *)

\* the names the functions are called with: schema names, kernel names,
\* kernel names less their KEY_ or BTN_ prefix, names in another case, and
\* names of nothing
KeyNames ==
    {"MOUSE_LEFT", "MOUSE_SIDE", "MOUSE_EXTRA", "MOUSE_FORWARD", "MOUSE_BACK",
     "CTRL", "SHIFT", "TAB", "ENTER", "SPACE", "LEFT", "STOP",
     "A", "B", "C", "Q", "1"}
    \cup (DOMAIN ecodes)
    \cup {"RESERVED", "LEFTCTRL", "LEFTSHIFT", "POWER", "BACK", "FORWARD",
          "STOPCD", "SIDE", "EXTRA", "TOUCH", "HAT0X"}
    \cup {"a", "b", "c", "q", "ctrl", "Ctrl", "shift", "tab", "enter",
          "space", "Space", "left", "stop", "mouse_left", "mouse_side",
          "Mouse_Side", "mouse_back", "key_a", "btn_side", "power", "back"}
    \cup {"", "NOPE", "KEY_", "MOUSE_TOUCH"}

\* the module as imported: the tables are built, no function called yet
KeymapInit == Init /\ profile = empty_profile

SchemaToEvdevCode ==
    /\ \E schema_name \in KeyNames :
        /\ lookup' = Lookup("schema_to_evdev_code", schema_name)
        /\ answer' = schema_to_evdev_code(schema_name)
    /\ UNCHANGED <<remap_vars, recorder_vars, daemon_vars>>
    /\ UNCHANGED <<bridge_vars, device_vars>>

EvdevCodeToSchema ==
    /\ \E evdev_name \in KeyNames :
        /\ lookup' = Lookup("evdev_code_to_schema", evdev_name)
        /\ answer' = evdev_code_to_schema(evdev_name)
    /\ UNCHANGED <<remap_vars, recorder_vars, daemon_vars>>
    /\ UNCHANGED <<bridge_vars, device_vars>>

KeymapNext == SchemaToEvdevCode \/ EvdevCodeToSchema

SpecKeymap == KeymapInit /\ [][KeymapNext]_vars

-----------------------------------------------------------------------------
(* The recorder on its own                                                 *)

\* the number of events recorded into a buffer
MaxEvents == 3

\* the recorders of the tests (default, no merge, no delays, a higher
\* threshold), one whose cap is below the longest gap, and one whose
\* threshold is above its cap
RecorderConfigs ==
    {DefaultConfig,
     RecorderConfig(10, 5000, TRUE, FALSE),
     RecorderConfig(10, 5000, FALSE, TRUE),
     RecorderConfig(100, 5000, TRUE, TRUE),
     RecorderConfig(10, 300, TRUE, TRUE),
     RecorderConfig(100, 50, TRUE, TRUE)}

\* the time from one event to the next, in milliseconds: within the merge
\* window, at its end, and beyond it
Gaps == {50, 100, 450}

RecEv(type, code, value, timestamp) ==
    [type |-> type, code |-> code, value |-> value, timestamp |-> timestamp]

\* the time of an event that is gap after the last one recorded
TimeAfter(gap) ==
    IF _events = <<>> THEN 1000 ELSE _events[Len(_events)].timestamp + gap

\* the events record_event is called with: presses and releases of two
\* keys at every gap, an autorepeat and a relative-motion event
RecEvents ==
    {RecEv(ecodes.EV_KEY, c, v, TimeAfter(g)) :
         c \in {ecodes.KEY_A, ecodes.KEY_B}, v \in {0, 1}, g \in Gaps}
    \cup {RecEv(ecodes.EV_KEY, ecodes.KEY_A, 2, TimeAfter(50)),
          RecEv(ecodes.EV_REL, 0, 1, TimeAfter(50))}

\* a buffer from (code, value, timestamp) triples
RECURSIVE BufferOf(_)
BufferOf(triples) ==
    IF triples = <<>> THEN <<>>
    ELSE <<RecordedEvent(Head(triples)[3], Head(triples)[1], Head(triples)[2],
                         evdev_event_to_schema(ecodes.EV_KEY, Head(triples)[1]))>>
         \o BufferOf(Tail(triples))

\* the buffers the tests assign to _events: scenarios S6 and S7, the chord
\* with a modifier, a gap below a threshold of 100 and a gap of 2950
S6_buffer == BufferOf(<<<<ecodes.KEY_A, 1, 1000>>, <<ecodes.KEY_A, 0, 1050>>,
                        <<ecodes.KEY_B, 1, 1500>>, <<ecodes.KEY_B, 0, 1550>>>>)
S7_buffer == BufferOf(<<<<ecodes.KEY_A, 1, 1000>>, <<ecodes.KEY_A, 0, 1200>>>>)
chord_buffer ==
    BufferOf(<<<<ecodes.KEY_LEFTCTRL, 1, 1000>>, <<ecodes.KEY_C, 1, 1100>>,
               <<ecodes.KEY_C, 0, 1150>>, <<ecodes.KEY_LEFTCTRL, 0, 1200>>>>)
threshold_buffer ==
    BufferOf(<<<<ecodes.KEY_A, 1, 1000>>, <<ecodes.KEY_A, 0, 1050>>,
               <<ecodes.KEY_B, 1, 1080>>, <<ecodes.KEY_B, 0, 1130>>>>)
cap_buffer == BufferOf(<<<<ecodes.KEY_A, 1, 1000>>, <<ecodes.KEY_A, 0, 1050>>,
                         <<ecodes.KEY_B, 1, 4000>>, <<ecodes.KEY_B, 0, 4050>>>>)
TestBuffers == {S6_buffer, S7_buffer, chord_buffer, threshold_buffer,
                cap_buffer}

\* MacroRecorder(min_delay_ms, max_delay_ms, record_delays, merge_press_release)
RecorderInit ==
    /\ EngineMade /\ profile = empty_profile
    /\ \E cfg \in RecorderConfigs : RecorderMade(cfg)
    /\ DaemonMade(DefaultWorld) /\ ListenerMade
    /\ BridgeMade(NoBus) /\ DeviceRecorderMade

NotStop == accepted' = FALSE /\ compiled' = NoMacro

start ==
    /\ _events' = <<>>
    /\ recording' = TRUE
    /\ rec_op' = RecCall("start", NoEvent)
    /\ NotStop
    /\ UNCHANGED <<config, remap_vars, keymap_vars,
                   daemon_vars>>
    /\ UNCHANGED <<bridge_vars, device_vars>>

stop ==
    /\ recording' = FALSE
    /\ compiled' = build_macro(_events, config)
    /\ rec_op' = RecCall("stop", NoEvent)
    /\ accepted' = FALSE
    /\ UNCHANGED <<_events, config, remap_vars, keymap_vars,
                   daemon_vars>>
    /\ UNCHANGED <<bridge_vars, device_vars>>

\* a mutant of clear: clearing ends the recording
clear_ends_recording ==
    /\ _events' = <<>>
    /\ recording' = FALSE
    /\ rec_op' = RecCall("clear", NoEvent)
    /\ NotStop
    /\ UNCHANGED <<config, remap_vars, keymap_vars,
                   daemon_vars>>
    /\ UNCHANGED <<bridge_vars, device_vars>>

clear ==
    /\ _events' = <<>>
    /\ rec_op' = RecCall("clear", NoEvent)
    /\ NotStop
    /\ UNCHANGED <<recording, config, remap_vars, keymap_vars,
                   daemon_vars>>
    /\ UNCHANGED <<bridge_vars, device_vars>>

\* a mutant of accepts: an autorepeat is recorded too
accepts_repeats(event) ==
    /\ recording
    /\ event.type = ecodes.EV_KEY

\* record_event: the event is one the recorder takes
accepts(event) ==
    /\ recording
    /\ event.type = ecodes.EV_KEY
    /\ event.value \in {0, 1}

record_event ==
    /\ Len(_events) < MaxEvents
    /\ \E event \in RecEvents :
        LET ok == accepts(event)
        IN /\ accepted' = ok
           /\ _events' =
                  IF ok
                  THEN Append(_events,
                              RecordedEvent(event.timestamp, event.code,
                                            event.value,
                                            evdev_event_to_schema(event.type,
                                                                  event.code)))
                  ELSE _events
           /\ rec_op' = RecCall("record_event", event)
    /\ compiled' = NoMacro
    /\ UNCHANGED <<recording, config, remap_vars, keymap_vars,
                   daemon_vars>>
    /\ UNCHANGED <<bridge_vars, device_vars>>

\* recorder._events = [...], as the tests of compilation do
set_events ==
    /\ \E buffer \in TestBuffers : _events' = buffer
    /\ rec_op' = RecCall("_events", NoEvent)
    /\ NotStop
    /\ UNCHANGED <<recording, config, remap_vars, keymap_vars,
                   daemon_vars>>
    /\ UNCHANGED <<bridge_vars, device_vars>>

RecorderNext == start \/ stop \/ clear \/ record_event \/ set_events

SpecRecorder == RecorderInit /\ [][RecorderNext]_vars

-----------------------------------------------------------------------------
(* A sink that fails, and an engine called by two threads.                 *)
(* uinput.write or uinput.syn raises OSError: _emit_key has no handler, so *)
(* the exception leaves process_event at the failing write; what was done  *)
(* before it stays done.                                                   *)
(* RemapEngine has no lock: a thread that calls reload_profile while       *)
(* another is in process_event runs statement by statement beside it.      *)
(* Each call is taken one access to the engine at a time; a step of one    *)
(* call falls before or after any step of the other.  An access is a read  *)
(* or a write of an attribute of the engine, of the KeyState loaded from   *)
(* it, or of one of its three tables: a statement that makes several, such *)
(* as self.state.active_layer = layer_id (self.state is loaded, then       *)
(* active_layer is stored on what was loaded), is as many steps.           *)

\* what the observers see of a process_event call that raises after done,
\* binding being the binding the call resolved
Raising(event, binding, done) ==
    LET key == event.type = ecodes.EV_KEY
    IN /\ handled' = FALSE
       /\ raised' = TRUE
       /\ effects' = done
       /\ op' = Call("process_event", event, "")
       /\ phys_down' = IF key /\ event.value = 1
                       THEN phys_down \cup {event.code}
                       ELSE IF key /\ event.value = 0
                       THEN phys_down \ {event.code}
                       ELSE phys_down
       /\ press_consumed' = IF key /\ event.value \in {0, 1}
                            THEN press_consumed \ {event.code}
                            ELSE press_consumed
       /\ fired' = IF event.value = 1
                   THEN [fired EXCEPT ![event.code] = binding]
                   ELSE [fired EXCEPT ![event.code] = NoBinding]
       /\ hist' = Off
       /\ sink' = <<>>

\* the number of calls the two threads make on the engine
MaxUnlockedCalls == 4

\* the profiles whose bindings write to the sink, a chord and a macro, and
\* one with a shift layer; the events of their keys
SinkFailsProfiles == {simple_profile, macro_profile, hypershift_profile}
SinkFailsEvents ==
    {Ev(c, v) : c \in {ecodes.BTN_SIDE, ecodes.BTN_EXTRA}, v \in {0, 1}}

\* a step inside a call: nothing has returned, the observers of the calls
\* see nothing new
NothingReturned ==
    UNCHANGED <<op, handled, raised, effects, phys_down, press_consumed,
                fired, modifier_held, hist, sink>>

\* the step of process_event goes on to w, returns value having done done,
\* or raises having done done
StepGoesTo(w) ==
    /\ waiting' = w
    /\ NothingReturned

StepReturns(value, done) ==
    /\ waiting' = NotWaiting
    /\ ReturnedAs(waiting.event, waiting.binding,
                  waiting.pc \in {"modifier", "layer_state", "layer_store"},
                  value, done)

StepRaises(done) ==
    /\ waiting' = NotWaiting
    /\ Raising(waiting.event, waiting.binding, done)
    /\ UNCHANGED modifier_held

\* the call has what it writes: it returns at once when that is nothing
StepEmits(effs) ==
    IF effs = <<>> THEN StepReturns(TRUE, <<>>)
    ELSE StepGoesTo([waiting EXCEPT !.pc = "emit", !.rest = effs,
                                    !.handled = TRUE])

\* process_event is called with a key event and tests whether the code is
\* a layer modifier; the engine has no lock, so the call is made whether or
\* not reload_profile is in progress, and every later step of it is taken
\* before or after any step of that reload
SinkFailsProcessEvent ==
    /\ calls < MaxUnlockedCalls
    /\ waiting = NotWaiting
    /\ calls' = calls + 1
    /\ \E event \in SinkFailsEvents :
         StepGoesTo([NotWaiting EXCEPT
                        !.event = event,
                        !.pc = IF event.code \in DOMAIN _layer_modifiers
                               THEN "modifier" ELSE "layer?"])
    /\ UNCHANGED <<engine_vars, sink_down, reloading>>
    /\ UNCHANGED <<keymap_vars, recorder_vars, daemon_vars>>
    /\ UNCHANGED <<bridge_vars, device_vars>>

\* the code was found in _layer_modifiers (line 74); then, one access to
\* the engine in each step: layer_id = self._layer_modifiers[code], a
\* KeyError when the table was cleared since the test; self.state is
\* loaded; active_layer is stored on the KeyState that was loaded, which is
\* lost when reload_profile has replaced that KeyState since
LayerModifierStep ==
    /\ waiting.pc \in {"modifier", "layer_state", "layer_store"}
    /\ LET code == waiting.event.code
           value == waiting.event.value
       IN CASE waiting.pc = "modifier" ->
                 /\ IF code \notin DOMAIN _layer_modifiers
                    THEN StepRaises(<<>>)
                    ELSE IF value \in {0, 1}
                    THEN StepGoesTo([waiting EXCEPT
                             !.pc = "layer_state",
                             !.layer = _layer_modifiers[code]])
                    ELSE StepReturns(TRUE, <<>>)
                 /\ UNCHANGED active_layer
            [] waiting.pc = "layer_state" ->
                 /\ StepGoesTo([waiting EXCEPT !.pc = "layer_store",
                                               !.replaced = FALSE])
                 /\ UNCHANGED active_layer
            [] waiting.pc = "layer_store" ->
                 /\ active_layer' = IF waiting.replaced THEN active_layer
                                    ELSE IF value = 1 THEN waiting.layer
                                    ELSE "base"
                 /\ StepReturns(TRUE, <<>>)
    /\ UNCHANGED <<profile, pressed, uinput, _bindings, _macros,
                   _layer_modifiers, sink_down, reloading, calls>>
    /\ UNCHANGED <<keymap_vars, recorder_vars, daemon_vars>>
    /\ UNCHANGED <<bridge_vars, device_vars>>

\* _get_binding, one access to the engine in each step. Line 108:
\* self.state.active_layer is read, then looked for in _bindings. Line 109:
\* self.state.active_layer is read again, then _bindings is subscripted
\* with what was read, a KeyError when that layer is not in the table (it
\* was cleared, or rebuilt from a profile without it, since the test), and
\* the code is looked up in the layer's bindings. Lines 114 and 115: the
\* same of "base". A KeyState is written by process_event only, so reading
\* active_layer off self.state is one access; a layer's dict is complete
\* before it is put in _bindings and is not written to afterwards, so the
\* subscript and the .get(code) on its result are one access.
GetBindingStep ==
    /\ waiting.pc \in {"layer?", "in?", "layer", "get", "base?", "base"}
    /\ LET code == waiting.event.code
       IN CASE waiting.pc = "layer?" ->
                 StepGoesTo([waiting EXCEPT !.pc = "in?",
                                            !.layer = active_layer])
            [] waiting.pc = "in?" ->
                 StepGoesTo([waiting EXCEPT
                     !.pc = IF waiting.layer \in DOMAIN _bindings
                            THEN "layer" ELSE "base?"])
            [] waiting.pc = "layer" ->
                 StepGoesTo([waiting EXCEPT !.pc = "get",
                                            !.layer = active_layer])
            [] waiting.pc = "get" ->
                 IF waiting.layer \notin DOMAIN _bindings
                 THEN StepRaises(<<>>)
                 ELSE LET binding ==
                            DictGet(_bindings[waiting.layer], code, NoBinding)
                      IN IF binding # NoBinding
                         THEN StepGoesTo([waiting EXCEPT
                                  !.pc = "handle", !.binding = binding])
                         ELSE StepGoesTo([waiting EXCEPT !.pc = "base?"])
            [] waiting.pc = "base?" ->
                 StepGoesTo([waiting EXCEPT
                     !.pc = IF "base" \in DOMAIN _bindings
                            THEN "base" ELSE "handle"])
            [] waiting.pc = "base" ->
                 IF "base" \notin DOMAIN _bindings
                 THEN StepRaises(<<>>)
                 ELSE StepGoesTo([waiting EXCEPT
                          !.pc = "handle",
                          !.binding =
                              DictGet(_bindings["base"], code, NoBinding)])
    /\ UNCHANGED <<engine_vars, sink_down, reloading, calls>>
    /\ UNCHANGED <<keymap_vars, recorder_vars, daemon_vars>>
    /\ UNCHANGED <<bridge_vars, device_vars>>

\* process_event with the binding it got, one access to the engine in each
\* step: none is passed through; for a press or a release self.state is
\* loaded, then the code is added to or discarded from the pressed set of
\* the KeyState that was loaded, which is lost when reload_profile has
\* replaced that KeyState since; the binding is handled, a macro being
\* looked up in _macros in two steps (is it there, take it)
HandleBindingStep ==
    /\ waiting.pc \in {"handle", "pressed", "macro?", "macro"}
    /\ LET code == waiting.event.code
           value == waiting.event.value
           binding == waiting.binding
       IN CASE waiting.pc = "handle" ->
                 /\ IF binding = NoBinding
                    THEN StepReturns(FALSE, <<>>)
                    ELSE IF value \in {0, 1}
                    THEN StepGoesTo([waiting EXCEPT !.pc = "pressed",
                                                    !.replaced = FALSE])
                    ELSE StepReturns(value = 2, <<>>)
                 /\ UNCHANGED pressed
            [] waiting.pc = "pressed" ->
                 /\ pressed' = IF waiting.replaced THEN pressed
                               ELSE on_binding(binding, code, value).pressed
                 /\ IF value = 1 /\ binding.action_type = "MACRO"
                    THEN StepGoesTo([waiting EXCEPT !.pc = "macro?"])
                    ELSE IF value = 1
                    THEN StepEmits(_handle_binding_down(binding))
                    ELSE StepEmits(_handle_binding_up(binding))
            [] waiting.pc = "macro?" ->
                 /\ IF /\ binding.macro_id # ""
                       /\ binding.macro_id \in DOMAIN _macros
                    THEN StepGoesTo([waiting EXCEPT !.pc = "macro"])
                    ELSE StepReturns(TRUE, <<>>)
                 /\ UNCHANGED pressed
            [] waiting.pc = "macro" ->
                 /\ IF binding.macro_id \in DOMAIN _macros
                    THEN StepEmits(_execute_macro(_macros[binding.macro_id]))
                    ELSE StepRaises(<<>>)
                 /\ UNCHANGED pressed
    /\ UNCHANGED <<profile, active_layer, uinput, _bindings, _macros,
                   _layer_modifiers, sink_down, reloading, calls>>
    /\ UNCHANGED <<keymap_vars, recorder_vars, daemon_vars>>
    /\ UNCHANGED <<bridge_vars, device_vars>>

\* the next write or time.sleep of the call; after the last the call
\* returns
EmitStep ==
    /\ waiting.pc = "emit"
    /\ LET e == Head(waiting.rest)
           done == Append(waiting.done, e)
       IN /\ sink_down' = ApplyWrites(sink_down, <<e>>)
          /\ IF Tail(waiting.rest) = <<>>
             THEN StepReturns(waiting.handled, done)
             ELSE StepGoesTo([waiting EXCEPT !.done = done,
                                             !.rest = Tail(waiting.rest)])
    /\ UNCHANGED <<engine_vars, reloading, calls>>
    /\ UNCHANGED <<keymap_vars, recorder_vars, daemon_vars>>
    /\ UNCHANGED <<bridge_vars, device_vars>>

\* the next write of the call raises, or the syn() after it does (the write
\* is then made): the exception leaves process_event
EmitStepSinkFails ==
    /\ waiting.pc = "emit"
    /\ Head(waiting.rest).kind = "key"
    /\ \E written \in BOOLEAN :
         LET made == IF written THEN <<Head(waiting.rest)>> ELSE <<>>
         IN /\ sink_down' = ApplyWrites(sink_down, made)
            /\ StepRaises(waiting.done \o made)
    /\ UNCHANGED <<engine_vars, reloading, calls>>
    /\ UNCHANGED <<keymap_vars, recorder_vars, daemon_vars>>
    /\ UNCHANGED <<bridge_vars, device_vars>>

SinkFailsInit ==
    /\ EngineMadeFor(SinkFailsProfiles) /\ RecorderMade(DefaultConfig)
    /\ DaemonMade(DefaultWorld) /\ ListenerMade
    /\ BridgeMade(NoBus) /\ DeviceRecorderMade

\* what the observers see of a reload_profile(p) that returns, having
\* written done
ReloadReturned(p, done) ==
    /\ effects' = done
    /\ op' = Call("reload_profile", NoEvent, p.id)
    /\ handled' = FALSE
    /\ raised' = FALSE
    /\ fired' = NoFired
    /\ modifier_held' = None
    /\ hist' = Off
    /\ sink' = <<>>
    /\ UNCHANGED <<phys_down, press_consumed>>

\* reload_profile is called, by the thread that calls process_event or by
\* another while that call is anywhere, and takes list(self.state.pressed)
SinkFailsReloadProfile ==
    /\ calls < MaxUnlockedCalls
    /\ reloading = NotReloading
    /\ calls' = calls + 1
    /\ \E p \in SinkFailsProfiles : \E codes \in ListsOf(pressed) :
         reloading' = [pc |-> IF codes = <<>> THEN "profile" ELSE "release",
                       p |-> p, codes |-> codes, done |-> <<>>,
                       macros |-> p.macros, layers |-> p.layers]
    /\ NothingReturned
    /\ UNCHANGED <<engine_vars, sink_down, waiting>>
    /\ UNCHANGED <<keymap_vars, recorder_vars, daemon_vars>>
    /\ UNCHANGED <<bridge_vars, device_vars>>

\* self._emit_key(code, 0) for the next code of the list
ReloadReleaseStep ==
    /\ reloading.pc = "release"
    /\ LET made == _emit_key(Head(reloading.codes), 0)
       IN /\ sink_down' = ApplyWrites(sink_down, made)
          /\ reloading' =
               [reloading EXCEPT
                   !.pc = IF Tail(reloading.codes) = <<>>
                          THEN "profile" ELSE "release",
                   !.codes = Tail(reloading.codes),
                   !.done = reloading.done \o made]
    /\ NothingReturned
    /\ UNCHANGED <<engine_vars, waiting, calls>>
    /\ UNCHANGED <<keymap_vars, recorder_vars, daemon_vars>>
    /\ UNCHANGED <<bridge_vars, device_vars>>

\* that write raises, or the syn() after it: the exception leaves the loop
\* of releases, before the profile and the state are replaced
ReloadReleaseSinkFails ==
    /\ reloading.pc = "release"
    /\ uinput
    /\ \E written \in BOOLEAN :
         LET made == IF written THEN _emit_key(Head(reloading.codes), 0)
                     ELSE <<>>
         IN /\ sink_down' = ApplyWrites(sink_down, made)
            /\ effects' = reloading.done \o made
    /\ reloading' = NotReloading
    /\ op' = Call("reload_profile", NoEvent, reloading.p.id)
    /\ handled' = FALSE
    /\ raised' = TRUE
    /\ hist' = Off
    /\ sink' = <<>>
    /\ UNCHANGED <<engine_vars, phys_down, press_consumed, waiting, fired,
                   modifier_held, calls>>
    /\ UNCHANGED <<keymap_vars, recorder_vars, daemon_vars>>
    /\ UNCHANGED <<bridge_vars, device_vars>>

\* self.profile = profile, then self.state = KeyState(): a new KeyState is
\* the engine's, and the one a process_event has loaded and not yet
\* written to is the engine's no longer
ReloadSwapStep ==
    /\ reloading.pc \in {"profile", "state"}
    /\ IF reloading.pc = "profile"
       THEN /\ profile' = reloading.p
            /\ reloading' = [reloading EXCEPT !.pc = "state"]
            /\ UNCHANGED <<pressed, active_layer, waiting>>
       ELSE /\ pressed' = {}
            /\ active_layer' = "base"
            /\ reloading' = [reloading EXCEPT !.pc = "bindings"]
            /\ waiting' = IF waiting.pc \in {"layer_store", "pressed"}
                          THEN [waiting EXCEPT !.replaced = TRUE]
                          ELSE waiting
            /\ UNCHANGED profile
    /\ NothingReturned
    /\ UNCHANGED <<uinput, _bindings, _macros, _layer_modifiers, sink_down,
                   calls>>
    /\ UNCHANGED <<keymap_vars, recorder_vars, daemon_vars>>
    /\ UNCHANGED <<bridge_vars, device_vars>>

\* self._bindings.clear(), self._macros.clear(),
\* self._layer_modifiers.clear(), one in each step
ReloadClearStep ==
    /\ reloading.pc \in {"bindings", "macros", "modifiers"}
    /\ CASE reloading.pc = "bindings" ->
              /\ _bindings' = EmptyDict
              /\ reloading' = [reloading EXCEPT !.pc = "macros"]
              /\ UNCHANGED <<_macros, _layer_modifiers>>
         [] reloading.pc = "macros" ->
              /\ _macros' = EmptyDict
              /\ reloading' = [reloading EXCEPT !.pc = "modifiers"]
              /\ UNCHANGED <<_bindings, _layer_modifiers>>
         [] reloading.pc = "modifiers" ->
              /\ _layer_modifiers' = EmptyDict
              /\ reloading' = [reloading EXCEPT !.pc = "build"]
              /\ UNCHANGED <<_bindings, _macros>>
    /\ NothingReturned
    /\ UNCHANGED <<profile, pressed, active_layer, uinput, sink_down,
                   waiting, calls>>
    /\ UNCHANGED <<keymap_vars, recorder_vars, daemon_vars>>
    /\ UNCHANGED <<bridge_vars, device_vars>>

\* _build_lookup_tables, one entry in each step: the macros by id, then for
\* each layer its bindings by code and, after them, its modifier
ReloadBuildStep ==
    /\ reloading.pc \in {"build", "modifier_of"}
    /\ reloading.macros # <<>> \/ reloading.layers # <<>>
    /\ IF reloading.macros # <<>>
       THEN LET macro == Head(reloading.macros)
            IN /\ _macros' = DictSet(_macros, macro.id, macro)
               /\ reloading' =
                    [reloading EXCEPT !.macros = Tail(reloading.macros)]
               /\ UNCHANGED <<_bindings, _layer_modifiers>>
       ELSE LET layer == Head(reloading.layers)
                mod_code ==
                    schema_to_evdev_code(layer.hold_modifier_input_code)
                modifier == /\ layer.hold_modifier_input_code # ""
                            /\ mod_code # None
            IN IF reloading.pc = "build"
               THEN /\ _bindings' =
                         DictSet(_bindings, layer.id,
                                 layer_bindings(layer.bindings, EmptyDict))
                    /\ reloading' =
                         IF modifier
                         THEN [reloading EXCEPT !.pc = "modifier_of"]
                         ELSE [reloading EXCEPT
                                  !.layers = Tail(reloading.layers)]
                    /\ UNCHANGED <<_macros, _layer_modifiers>>
               ELSE /\ _layer_modifiers' =
                         DictSet(_layer_modifiers, mod_code, layer.id)
                    /\ reloading' =
                         [reloading EXCEPT
                             !.pc = "build",
                             !.layers = Tail(reloading.layers)]
                    /\ UNCHANGED <<_bindings, _macros>>
    /\ NothingReturned
    /\ UNCHANGED <<profile, pressed, active_layer, uinput, sink_down,
                   waiting, calls>>
    /\ UNCHANGED <<keymap_vars, recorder_vars, daemon_vars>>
    /\ UNCHANGED <<bridge_vars, device_vars>>

\* the tables are built: reload_profile returns
ReloadReturnStep ==
    /\ reloading.pc = "build"
    /\ reloading.macros = <<>> /\ reloading.layers = <<>>
    /\ reloading' = NotReloading
    /\ ReloadReturned(reloading.p, reloading.done)
    /\ UNCHANGED <<engine_vars, sink_down, waiting, calls>>
    /\ UNCHANGED <<keymap_vars, recorder_vars, daemon_vars>>
    /\ UNCHANGED <<bridge_vars, device_vars>>

\* set_uinput, as the daemon calls it before the first event
SinkFailsSetUinput ==
    /\ calls < MaxUnlockedCalls
    /\ set_uinput

NextSinkFails ==
    SinkFailsSetUinput \/ SinkFailsProcessEvent \/ LayerModifierStep
    \/ GetBindingStep \/ HandleBindingStep \/ EmitStep \/ EmitStepSinkFails
    \/ SinkFailsReloadProfile \/ ReloadReleaseStep \/ ReloadReleaseSinkFails
    \/ ReloadSwapStep \/ ReloadClearStep \/ ReloadBuildStep
    \/ ReloadReturnStep

SpecSinkFails == SinkFailsInit /\ [][NextSinkFails]_vars

-----------------------------------------------------------------------------
(* The daemon from construction to cleanup                                 *)

\* the profiles the loader hands the daemon
DaemonProfiles == {simple_profile, hypershift_profile, macro_profile}

\* the worlds the daemon starts in
DaemonWorlds ==
    {World(ids, devices, sink_ok) :
        ids \in {<<>>, <<"razer_mouse_001">>,
                 <<"razer_mouse_001", "razer_keyboard_001">>},
        devices \in [DeviceIds -> {"ok", "missing", "denied"}],
        sink_ok \in BOOLEAN}

\* the events the grabbed devices deliver: a bound button, the button that
\* is a layer modifier in one profile, an unbound key, a relative motion
\* and a sync
DaemonEvents ==
    {Ev(ecodes.BTN_SIDE, v) : v \in {0, 1, 2}}
    \cup {Ev(c, v) : c \in {ecodes.BTN_EXTRA, ecodes.KEY_Q}, v \in {0, 1}}
    \cup {[type |-> ecodes.EV_REL, code |-> 0, value |-> 1],
          [type |-> ecodes.EV_SYN, code |-> 0, value |-> 0]}

DaemonInit ==
    /\ EngineMade /\ profile \in DaemonProfiles
    /\ RecorderMade(DefaultConfig)
    /\ \E w \in DaemonWorlds : DaemonMade(w)
    /\ ListenerMade
    /\ BridgeMade(NoBus) /\ DeviceRecorderMade

listener_vars == <<queue, current_keys, _triggered, profile_hotkeys,
                   listener, hotkey_obs>>

\* setup(): the engine, the sink, then the grabs. What becomes of the
\* devices grabbed before one that fails is not said: they are kept until
\* cleanup() or let go at once
setup ==
    /\ ~engine
    /\ engine' = TRUE
    /\ IF ~world.sink_ok
       THEN /\ daemon_op' = DaemonCall("setup", FALSE, FALSE, NoUngrabs, 0, 0,
                                       <<>>)
            /\ UNCHANGED <<daemon_uinput, grabbed_devices, remap_vars>>
       ELSE LET g == _grab_devices(world)
            IN /\ daemon_uinput' = TRUE
               /\ uinput' = TRUE
               /\ op' = Call("set_uinput", NoEvent, "")
               /\ handled' = FALSE
               /\ raised' = FALSE
               /\ effects' = <<>>
               /\ grabbed_devices' \in IF g.ok THEN {g.grabbed}
                                       ELSE {g.grabbed, {}}
               /\ daemon_op' = DaemonCall("setup", g.ok, FALSE, NoUngrabs, 0,
                                          0, <<>>)
               /\ UNCHANGED <<profile, pressed, active_layer, _bindings,
                              _macros, _layer_modifiers, sink_down, phys_down,
                              press_consumed, waiting, reloading, fired,
                              modifier_held, hist, sink, calls>>
    /\ thread' = "main"
    /\ UNCHANGED <<world, running, dispatching, listener_vars, keymap_vars,
                   recorder_vars>>
    /\ UNCHANGED <<bridge_vars, device_vars>>

\* run(): the dispatch loop starts, after a setup() that succeeded
run ==
    /\ daemon_op.name = "setup" /\ daemon_op.result
    /\ running' = TRUE
    /\ daemon_op' = DaemonCall("run", FALSE, FALSE, NoUngrabs, 0, 0, <<>>)
    /\ UNCHANGED <<world, engine, daemon_uinput, grabbed_devices, dispatching,
                   thread, listener_vars, remap_vars, keymap_vars,
                   recorder_vars>>
    /\ UNCHANGED <<bridge_vars, device_vars>>

\* the dispatch thread reads an event of a grabbed device and enters
\* engine.process_event
BeginEventOf(events, cap) ==
    /\ running /\ dispatching = NoEvent
    /\ calls < cap
    /\ \E event \in events : dispatching' = event
    /\ UNCHANGED <<world, engine, daemon_uinput, grabbed_devices, daemon_op,
                   running, thread, listener_vars, remap_vars, keymap_vars,
                   recorder_vars>>
    /\ UNCHANGED <<bridge_vars, device_vars>>

BeginEvent == BeginEventOf(DaemonEvents, MaxCalls)

\* the loop forwards the event if process_event did not handle it
Dispatched(event, value) ==
    DaemonCall("dispatch", FALSE, FALSE, NoUngrabs, 0, 0,
               IF value THEN <<>> ELSE _passthrough_event(event))

\* process_event runs to its end, or to its first time.sleep; when it has
\* returned the loop forwards the event if it was not handled
EndEvent ==
    /\ dispatching # NoEvent
    /\ waiting = NotWaiting
    /\ calls' = calls + 1
    /\ IF HasSleep(process_event(dispatching).effects)
       THEN /\ EnterEventOf(dispatching)
            /\ UNCHANGED <<daemon_op, dispatching>>
       ELSE /\ ProcessEventOf(dispatching)
            /\ daemon_op' = Dispatched(dispatching,
                                       process_event(dispatching).handled)
            /\ dispatching' = NoEvent
    /\ thread' = "dispatch"
    /\ UNCHANGED <<world, engine, daemon_uinput, grabbed_devices, running,
                   listener_vars, keymap_vars, recorder_vars>>
    /\ UNCHANGED <<bridge_vars, device_vars>>

\* the dispatch thread wakes in process_event and goes on; when the call
\* has returned the loop forwards the event if it was not handled
ResumeDispatch ==
    /\ dispatching # NoEvent
    /\ waiting # NotWaiting
    /\ ResumeEventOf
    /\ IF HasSleep(waiting.rest)
       THEN UNCHANGED <<daemon_op, dispatching>>
       ELSE /\ daemon_op' = Dispatched(dispatching, waiting.handled)
            /\ dispatching' = NoEvent
    /\ thread' = "dispatch"
    /\ UNCHANGED <<calls, world, engine, daemon_uinput, grabbed_devices,
                   running, listener_vars, keymap_vars, recorder_vars>>
    /\ UNCHANGED <<bridge_vars, device_vars>>

\* cleanup(), once the loop has ended if it ran: ungrab every device, call
\* the engine's release_all_keys, close the sink. The engine has no
\* release_all_keys, so with an engine the call raises and the sink stays
cleanup ==
    /\ dispatching = NoEvent
    /\ running' = FALSE
    /\ grabbed_devices' = {}
    /\ LET ungrabs == [id \in DeviceIds |->
                          IF id \in grabbed_devices THEN 1 ELSE 0]
       IN IF engine
          THEN /\ ReleaseAllKeysRaises
               /\ daemon_op' = DaemonCall("cleanup", FALSE, TRUE, ungrabs, 0,
                                          0, <<>>)
               /\ UNCHANGED <<daemon_uinput, calls>>
          ELSE /\ daemon_op' = DaemonCall("cleanup", FALSE, FALSE, ungrabs, 0,
                                          IF daemon_uinput THEN 1 ELSE 0,
                                          <<>>)
               /\ daemon_uinput' = FALSE
               /\ UNCHANGED remap_vars
    /\ thread' = "main"
    /\ UNCHANGED <<world, engine, dispatching, listener_vars, keymap_vars,
                   recorder_vars>>
    /\ UNCHANGED <<bridge_vars, device_vars>>

DaemonNext ==
    setup \/ run \/ BeginEvent \/ EndEvent \/ ResumeDispatch \/ cleanup

SpecDaemon == DaemonInit /\ [][DaemonNext]_vars

-----------------------------------------------------------------------------
(* The dispatch thread and the hotkey listener thread, section 5: the      *)
(* listener's callback leaves an intent in a queue and the dispatch loop    *)
(* applies it between two events. The callback and the loop are not part   *)
(* of the tree; HotkeyListener is.                                         *)

\* the intents a run leaves unapplied at most, and the calls it makes on
\* the engine
MaxQueue == 2
MaxThreadCalls == 4

\* the events the dispatch thread reads while the listener runs: a press
\* and a release of a bound button and a sync
ThreadEvents ==
    {Ev(ecodes.BTN_SIDE, 1), Ev(ecodes.BTN_SIDE, 0),
     [type |-> ecodes.EV_SYN, code |-> 0, value |-> 0]}

\* the profiles by position, the order the hotkeys switch in
ProfilesByPosition == <<macro_profile, hypershift_profile, simple_profile>>

\* the keys the listener hears while the daemon runs: a modifier and a
\* digit
ThreadKeys ==
    {keyboard_Key("ctrl_l"), keyboard_KeyCode("1", None)}

\* a daemon set up and running in the world of the tests, and a listener
\* made beside it
ThreadsInit ==
    /\ profile \in DaemonProfiles
    /\ pressed = {}
    /\ active_layer = "base"
    /\ uinput = TRUE
    /\ LET t == _build_lookup_tables(profile, EmptyDict, EmptyDict, EmptyDict)
       IN /\ _bindings = t.bindings
          /\ _macros = t.macros
          /\ _layer_modifiers = t.layer_modifiers
    /\ op = Call("set_uinput", NoEvent, "")
    /\ handled = FALSE
    /\ raised = FALSE
    /\ effects = <<>>
    /\ sink_down = {}
    /\ phys_down = {}
    /\ press_consumed = {}
    /\ waiting = NotWaiting
    /\ reloading = NotReloading
    /\ fired = NoFired
    /\ modifier_held = None
    /\ hist = <<>>
    /\ sink = <<>>
    /\ calls = 0
    /\ lookup = NoLookup
    /\ answer = None
    /\ RecorderMade(DefaultConfig)
    /\ world = DefaultWorld
    /\ engine = TRUE
    /\ daemon_uinput = TRUE
    /\ grabbed_devices = {"razer_mouse_001"}
    /\ running = TRUE
    /\ daemon_op = DaemonCall("run", FALSE, FALSE, NoUngrabs, 0, 0, <<>>)
    /\ dispatching = NoEvent
    /\ thread = "main"
    /\ ListenerMadeWith(HotkeyBindings)
    /\ BridgeMade(NoBus) /\ DeviceRecorderMade

\* HotkeyListener.start(): the listener thread runs
listener_start ==
    /\ ~listener
    /\ listener' = TRUE
    /\ UNCHANGED <<queue, current_keys, _triggered, profile_hotkeys, world,
                   engine, daemon_uinput, grabbed_devices, daemon_op,
                   dispatching, thread, running, remap_vars, keymap_vars,
                   recorder_vars, hotkey_obs>>
    /\ UNCHANGED <<bridge_vars, device_vars>>

\* what the observers see of a call that is no callback
HeardCall(name) ==
    /\ hk_op' = HotkeyCall(name, NoKey)
    /\ switched' = None
    /\ UNCHANGED <<held_since_switch, combo_switches>>

\* HotkeyListener.stop(): the listener thread is stopped and forgotten;
\* current_keys and _triggered stay as they are, and start() may follow
listener_stop ==
    /\ listener
    /\ listener' = FALSE
    /\ HeardCall("stop")
    /\ UNCHANGED <<queue, current_keys, _triggered, profile_hotkeys, world,
                   engine, daemon_uinput, grabbed_devices, daemon_op,
                   dispatching, thread, running, remap_vars, keymap_vars,
                   recorder_vars>>
    /\ UNCHANGED <<bridge_vars, device_vars>>

\* reload_bindings(): the settings are read again, and get_bindings()
\* returns the list now on disk, one of lists; _triggered keeps the
\* indexes it held into the list before
ReloadBindingsAmong(lists) ==
    /\ \E bindings \in lists : profile_hotkeys' = bindings
    /\ HeardCall("reload_bindings")
    /\ UNCHANGED <<queue, current_keys, _triggered, listener, world,
                   engine, daemon_uinput, grabbed_devices, daemon_op,
                   dispatching, thread, running, remap_vars, keymap_vars,
                   recorder_vars>>
    /\ UNCHANGED <<bridge_vars, device_vars>>

\* a mutant of on_profile_switch: the callback reloads the engine itself,
\* on the thread it is called on
on_profile_switch_reloads(i) ==
    /\ calls < MaxThreadCalls
    /\ calls' = calls + 1
    /\ \E codes \in ListsOf(pressed) :
         ReloadProfileTo(ProfilesByPosition[i + 1], codes)
    /\ thread' = "listener"
    /\ UNCHANGED <<queue, daemon_op>>

\* the callback the listener is made with: it leaves the intent in the
\* queue of the orchestrator
on_profile_switch(i) ==
    /\ queue' = Append(queue, i)
    /\ UNCHANGED <<remap_vars, thread, daemon_op>>

\* the listener thread calls _on_press(key)
OnPressOf(keys) ==
    /\ listener
    /\ Len(queue) < MaxQueue
    /\ \E key \in keys :
        LET r == _on_press(key, profile_hotkeys, current_keys, _triggered)
        IN /\ current_keys' = r.current_keys
           /\ _triggered' = r._triggered
           /\ IF r.switch # None THEN on_profile_switch(r.switch)
              ELSE UNCHANGED <<queue, remap_vars, thread, daemon_op>>
           /\ Heard("_on_press", key, profile_hotkeys, r, r.switch)
    /\ UNCHANGED <<listener, profile_hotkeys, world, engine, daemon_uinput,
                   grabbed_devices, dispatching, running, keymap_vars,
                   recorder_vars>>
    /\ UNCHANGED <<bridge_vars, device_vars>>

\* the listener thread calls _on_release(key)
OnReleaseOf(keys) ==
    /\ listener
    /\ \E key \in keys :
        LET r == _on_release(key, profile_hotkeys, current_keys,
                             _triggered)
        IN /\ current_keys' = r.current_keys
           /\ _triggered' = r._triggered
           /\ Heard("_on_release", key, profile_hotkeys, r, None)
    /\ UNCHANGED <<queue, listener, profile_hotkeys, world, engine,
                   daemon_uinput,
                   grabbed_devices, daemon_op, dispatching, thread, running,
                   remap_vars, keymap_vars, recorder_vars>>
    /\ UNCHANGED <<bridge_vars, device_vars>>

\* the dispatch loop, between two events, takes an intent from the queue
\* and switches: switch_profile(p) reloads the engine
ApplySwitch ==
    /\ running /\ dispatching = NoEvent
    /\ queue # <<>>
    /\ calls < MaxThreadCalls
    /\ calls' = calls + 1
    /\ \E codes \in ListsOf(pressed) :
         ReloadProfileTo(ProfilesByPosition[Head(queue) + 1], codes)
    /\ queue' = Tail(queue)
    /\ thread' = "dispatch"
    /\ daemon_op' = DaemonCall("switch_profile", FALSE, FALSE, NoUngrabs, 0,
                               0, <<>>)
    /\ UNCHANGED <<current_keys, _triggered, profile_hotkeys, listener,
                   world, engine, daemon_uinput, grabbed_devices,
                   dispatching, running, keymap_vars, recorder_vars,
                   hotkey_obs>>
    /\ UNCHANGED <<bridge_vars, device_vars>>

ThreadBeginEvent == BeginEventOf(ThreadEvents, MaxThreadCalls)
ThreadOnPress == OnPressOf(ThreadKeys)
ThreadOnRelease == OnReleaseOf(ThreadKeys)

\* the lists the settings hold while the daemon runs
ThreadSettings == {HotkeyBindings, MovedBindings}
ThreadReloadBindings == ReloadBindingsAmong(ThreadSettings)

ThreadsNext ==
    \/ ThreadBeginEvent \/ EndEvent \/ ResumeDispatch \/ ApplySwitch
    \/ listener_start \/ listener_stop \/ ThreadReloadBindings
    \/ ThreadOnPress \/ ThreadOnRelease

SpecThreads == ThreadsInit /\ [][ThreadsNext]_vars

-----------------------------------------------------------------------------
(* The hotkey listener on its own, made with a callback that only notes    *)
(* the index it is called with                                             *)

\* the keys the listener hears: both control keys, shift, the digits 1
\* (with its character, and with its virtual key code only) and 2, escape
ListenedKeys ==
    {keyboard_Key("ctrl_l"), keyboard_Key("ctrl_r"), keyboard_Key("shift"),
     keyboard_KeyCode("1", None), keyboard_KeyCode("", 49),
     keyboard_KeyCode("2", None), keyboard_Key("esc")}

HotkeysInit ==
    /\ EngineMadeFor({empty_profile}) /\ RecorderMade(DefaultConfig)
    /\ DaemonMade(DefaultWorld) /\ ListenerMade
    /\ BridgeMade(NoBus) /\ DeviceRecorderMade

\* pynput calls _on_press(key): for the press of a key and for each of its
\* repeats while it is held
HotkeyOnPress ==
    /\ listener
    /\ \E key \in ListenedKeys :
        LET r == _on_press(key, profile_hotkeys, current_keys, _triggered)
        IN /\ current_keys' = r.current_keys
           /\ _triggered' = r._triggered
           /\ Heard("_on_press", key, profile_hotkeys, r, r.switch)
    /\ UNCHANGED <<queue, listener, profile_hotkeys, world, engine,
                   daemon_uinput,
                   grabbed_devices, daemon_op, dispatching, thread, running,
                   remap_vars, keymap_vars, recorder_vars>>
    /\ UNCHANGED <<bridge_vars, device_vars>>

\* pynput calls _on_release(key)
HotkeyOnRelease ==
    /\ listener
    /\ \E key \in ListenedKeys :
        LET r == _on_release(key, profile_hotkeys, current_keys,
                             _triggered)
        IN /\ current_keys' = r.current_keys
           /\ _triggered' = r._triggered
           /\ Heard("_on_release", key, profile_hotkeys, r, None)
    /\ UNCHANGED <<queue, listener, profile_hotkeys, world, engine,
                   daemon_uinput,
                   grabbed_devices, daemon_op, dispatching, thread, running,
                   remap_vars, keymap_vars, recorder_vars>>
    /\ UNCHANGED <<bridge_vars, device_vars>>

\* the lists the settings hold while the listener is listened to
ListenedSettings == {ListenedBindings, MovedBindings}
reload_bindings == ReloadBindingsAmong(ListenedSettings)

HotkeysNext ==
    \/ listener_start \/ listener_stop \/ reload_bindings
    \/ HotkeyOnPress \/ HotkeyOnRelease

SpecHotkeys == HotkeysInit /\ [][HotkeysNext]_vars

-----------------------------------------------------------------------------
(* The OpenRazer bridge on its own                                         *)

\* a bus with a mouse and, there or not, a keyboard
BusWorld(mouse, keyboard) ==
    [serial \in Serials |->
        IF serial = "PM1234567890" THEN mouse
        ELSE IF serial = "KB0987654321" THEN keyboard
        ELSE NotOnBus]

\* the mouse of the tests, whose every method answers, and mice with or
\* without brightness, with DPI given as a pair, as one number or not at
\* all, and no battery; a keyboard that is there or not
BusWorlds ==
    {BusWorld(BusDevice(TRUE, b, d, None), k) :
        b \in {None, 75}, d \in {<<>>, <<800>>, <<800, 800>>},
        k \in {NotOnBus, BusDevice(TRUE, 100, <<>>, 80)}}
    \cup {BusWorld(BusDevice(TRUE, 75, <<800, 800>>, 90), k) :
             k \in {NotOnBus, BusDevice(TRUE, 100, <<>>, 80)}}

Brightnesses == {50}
DpiArguments == {<<1600, None>>, <<1600, 3200>>}
\* the colours asked for, as r, g, b
Colours == {<<255, 0, 0>>}

BridgeInit ==
    /\ EngineMadeFor({empty_profile}) /\ RecorderMade(DefaultConfig)
    /\ DaemonMade(DefaultWorld) /\ ListenerMade /\ DeviceRecorderMade
    /\ \E bus \in BusWorlds : BridgeMade(bus)

\* connect()
connect ==
    /\ \E ok \in BOOLEAN :
        /\ _daemon' = (ok \/ _daemon)
        /\ bridge_op' = BridgeCall("connect", "", <<>>, ok, <<>>, FALSE)
    /\ UNCHANGED <<dbus, _devices>>
    /\ UNCHANGED <<remap_vars, keymap_vars, recorder_vars, daemon_vars,
                   device_vars>>

\* discover_devices()
DiscoverDevices ==
    /\ \E a \in RescanAnswers :
        LET d == discover_devices(dbus, _daemon, _devices, a)
        IN /\ _daemon' = d._daemon
           /\ _devices' = d._devices
           /\ bridge_op' = BridgeCall("discover_devices", "", <<>>,
                                      d.found # {}, <<>>, TRUE)
    /\ UNCHANGED dbus
    /\ UNCHANGED <<remap_vars, keymap_vars, recorder_vars, daemon_vars,
                   device_vars>>

\* a setter call made on a device object
SetCall(serial, method, value) ==
    [serial |-> serial, method |-> method, value |-> value]

\* a mutant of set_brightness: the value is cached before the device is
\* called
set_brightness_caches_first ==
    /\ \E serial \in Serials, brightness \in Brightnesses :
       \E a \in AnswersFor(serial) :
        LET g == get_device(dbus, _daemon, _devices, serial, a)
            device == g.device
            call == SetCall(serial, "setBrightness", brightness)
            set == [dbus EXCEPT ![serial].brightness = brightness]
        IN /\ _daemon' = g._daemon
           /\ IF device = NoRazerDevice \/ ~device.has_brightness
              THEN /\ bridge_op' = BridgeCall("set_brightness", serial,
                                       brightness, FALSE, <<>>, g.rescanned)
                   /\ _devices' = g._devices
                   /\ UNCHANGED dbus
              ELSE /\ _devices' = [g._devices EXCEPT
                                     ![serial].brightness = brightness]
                   /\ IF a.fetched /\ a.set
                      THEN /\ dbus' = set
                           /\ bridge_op' = BridgeCall("set_brightness",
                                  serial, brightness, TRUE, <<call>>,
                                  g.rescanned)
                      ELSE /\ dbus' \in IF a.fetched THEN {dbus, set}
                                        ELSE {dbus}
                           /\ bridge_op' = BridgeCall("set_brightness",
                                  serial, brightness, FALSE,
                                  IF a.fetched THEN <<call>> ELSE <<>>,
                                  g.rescanned)
    /\ UNCHANGED <<remap_vars, keymap_vars, recorder_vars, daemon_vars,
                   device_vars>>

\* set_brightness(serial, brightness): get_device, then bus.get and the
\* device's setBrightness, which work or raise; a call that raises may
\* have reached the device or not
set_brightness ==
    /\ \E serial \in Serials, brightness \in Brightnesses :
       \E a \in AnswersFor(serial) :
        LET g == get_device(dbus, _daemon, _devices, serial, a)
            device == g.device
            call == SetCall(serial, "setBrightness", brightness)
            set == [dbus EXCEPT ![serial].brightness = brightness]
        IN /\ _daemon' = g._daemon
           /\ IF device = NoRazerDevice \/ ~device.has_brightness
              THEN /\ bridge_op' = BridgeCall("set_brightness", serial,
                                       brightness, FALSE, <<>>, g.rescanned)
                   /\ _devices' = g._devices
                   /\ UNCHANGED dbus
              ELSE IF a.fetched /\ a.set
              THEN /\ dbus' = set
                   /\ _devices' = [g._devices EXCEPT
                                     ![serial].brightness = brightness]
                   /\ bridge_op' = BridgeCall("set_brightness", serial,
                                       brightness, TRUE, <<call>>,
                                       g.rescanned)
              ELSE /\ dbus' \in IF a.fetched THEN {dbus, set}
                                ELSE {dbus}
                   /\ _devices' = g._devices
                   /\ bridge_op' = BridgeCall("set_brightness", serial,
                                       brightness, FALSE,
                                       IF a.fetched THEN <<call>>
                                       ELSE <<>>,
                                       g.rescanned)
    /\ UNCHANGED <<remap_vars, keymap_vars, recorder_vars, daemon_vars,
                   device_vars>>

\* set_dpi(serial, dpi_x, dpi_y=None)
set_dpi ==
    /\ \E serial \in Serials, arguments \in DpiArguments :
       \E a \in AnswersFor(serial) :
        LET dpi_x == arguments[1]
            dpi_y == IF arguments[2] = None THEN dpi_x ELSE arguments[2]
            g == get_device(dbus, _daemon, _devices, serial, a)
            device == g.device
            call == SetCall(serial, "setDPI", <<dpi_x, dpi_y>>)
            set == [dbus EXCEPT ![serial].dpi = <<dpi_x, dpi_y>>]
        IN /\ _daemon' = g._daemon
           /\ IF device = NoRazerDevice \/ ~device.has_dpi
              THEN /\ bridge_op' = BridgeCall("set_dpi", serial, arguments,
                                       FALSE, <<>>, g.rescanned)
                   /\ _devices' = g._devices
                   /\ UNCHANGED dbus
              ELSE IF a.fetched /\ a.set
              THEN /\ dbus' = set
                   /\ _devices' = [g._devices EXCEPT
                                     ![serial].dpi = <<dpi_x, dpi_y>>]
                   /\ bridge_op' = BridgeCall("set_dpi", serial, arguments,
                                       TRUE, <<call>>, g.rescanned)
              ELSE /\ dbus' \in IF a.fetched THEN {dbus, set}
                                ELSE {dbus}
                   /\ _devices' = g._devices
                   /\ bridge_op' = BridgeCall("set_dpi", serial, arguments,
                                       FALSE,
                                       IF a.fetched THEN <<call>>
                                       ELSE <<>>,
                                       g.rescanned)
    /\ UNCHANGED <<remap_vars, keymap_vars, recorder_vars, daemon_vars,
                   device_vars>>

\* get_device(serial): the cached device, or the one a rescan finds
GetDevice ==
    /\ \E serial \in Serials : \E a \in AnswersFor(serial) :
        LET g == get_device(dbus, _daemon, _devices, serial, a)
        IN /\ _daemon' = g._daemon
           /\ _devices' = g._devices
           /\ bridge_op' = BridgeCall("get_device", serial, <<>>,
                                      g.device # NoRazerDevice, <<>>,
                                      g.rescanned)
    /\ UNCHANGED dbus
    /\ UNCHANGED <<remap_vars, keymap_vars, recorder_vars, daemon_vars,
                   device_vars>>

\* a setter of the lighting, name, that calls method on the device object
\* with one of values: get_device, then bus.get and the method, which work
\* or raise; nothing is cached
SetLighting(name, method, values) ==
    /\ \E serial \in Serials, value \in values :
       \E a \in AnswersFor(serial) :
        LET g == get_device(dbus, _daemon, _devices, serial, a)
            device == g.device
            call == SetCall(serial, method, value)
        IN /\ _daemon' = g._daemon
           /\ _devices' = g._devices
           /\ bridge_op' =
                  IF device = NoRazerDevice \/ ~device.has_lighting
                  THEN BridgeCall(name, serial, value, FALSE, <<>>,
                                  g.rescanned)
                  ELSE IF a.fetched /\ a.set
                  THEN BridgeCall(name, serial, value, TRUE, <<call>>,
                                  g.rescanned)
                  ELSE BridgeCall(name, serial, value, FALSE,
                                  IF a.fetched THEN <<call>> ELSE <<>>,
                                  g.rescanned)
    /\ UNCHANGED dbus
    /\ UNCHANGED <<remap_vars, keymap_vars, recorder_vars, daemon_vars,
                   device_vars>>

\* set_static_color(serial, r, g, b)
set_static_color == SetLighting("set_static_color", "setStatic", Colours)

\* set_spectrum_effect(serial)
set_spectrum_effect ==
    SetLighting("set_spectrum_effect", "setSpectrum", {<<>>})

\* set_breathing_effect(serial, r, g, b)
set_breathing_effect ==
    SetLighting("set_breathing_effect", "setBreathSingle", Colours)

BridgeNext ==
    \/ connect \/ DiscoverDevices \/ GetDevice
    \/ set_brightness \/ set_static_color \/ set_dpi
    \/ set_spectrum_effect \/ set_breathing_effect

SpecBridge == BridgeInit /\ [][BridgeNext]_vars

-----------------------------------------------------------------------------
(* The device recorder on its own                                          *)

\* the number of polls of one call of record_from_device
MaxPolls == 3

\* what the device delivers: presses, releases and autorepeats of a key and
\* of the stop key, and a relative-motion event
DeviceEvents ==
    {RecEv(ecodes.EV_KEY, c, v, TimeAfter(50)) :
         c \in {ecodes.KEY_A, ecodes.KEY_Q}, v \in {0, 1, 2}}
    \cup {RecEv(ecodes.EV_REL, 0, 1, TimeAfter(50))}

DeviceRecorderInit ==
    /\ EngineMadeFor({empty_profile}) /\ RecorderMade(DefaultConfig)
    /\ DaemonMade(DefaultWorld) /\ ListenerMade /\ BridgeMade(NoBus)
    /\ DeviceRecorderMade

\* record_from_device(timeout, on_event) up to its loop: the device is
\* opened and grabbed and the recorder started
record_from_device ==
    /\ position \in {"made", "returned", "raised"}
    /\ position' = "polling"
    /\ device_grabbed' = TRUE
    /\ dev_grabs' = 1
    /\ dev_ungrabs' = 0
    /\ stop_pressed' = FALSE
    /\ polls' = 0
    /\ _events' = <<>>
    /\ recording' = TRUE
    /\ rec_op' = RecCall("start", NoEvent)
    /\ NotStop
    /\ UNCHANGED <<config, remap_vars, keymap_vars, daemon_vars, bridge_vars>>

\* the end of record_from_device on every path: the device is ungrabbed
\* and the recorder stopped
leave(how) ==
    /\ position' = how
    /\ device_grabbed' = FALSE
    /\ dev_ungrabs' = dev_ungrabs + 1
    /\ recording' = FALSE
    /\ compiled' = build_macro(_events, config)
    /\ accepted' = FALSE

\* the event is the stop key going to value
is_stop_key(event, value) ==
    /\ event.type = ecodes.EV_KEY
    /\ event.value = value
    /\ evdev_event_to_schema(event.type, event.code) = stop_key

\* one turn of the loop that finds nothing to read
poll_nothing ==
    /\ position = "polling"
    /\ polls < MaxPolls
    /\ polls' = polls + 1
    /\ UNCHANGED <<device_grabbed, position, dev_grabs, dev_ungrabs,
                   stop_pressed>>
    /\ UNCHANGED <<recorder_vars, remap_vars, keymap_vars, daemon_vars,
                   bridge_vars>>

\* one turn of the loop that reads an event: it is fed to the recorder,
\* and the release of the stop key after its press ends the call
poll_event ==
    /\ position = "polling"
    /\ polls < MaxPolls
    /\ polls' = polls + 1
    /\ \E event \in DeviceEvents :
        LET ok == accepts(event)
            fed == IF ok
                   THEN Append(_events,
                               RecordedEvent(event.timestamp, event.code,
                                             event.value,
                                             evdev_event_to_schema(event.type,
                                                                   event.code)))
                   ELSE _events
        IN /\ _events' = fed
           /\ rec_op' = RecCall("record_event", event)
           /\ stop_pressed' = (stop_pressed \/ is_stop_key(event, 1))
           /\ IF stop_pressed /\ is_stop_key(event, 0)
              THEN /\ position' = "returned"
                   /\ device_grabbed' = FALSE
                   /\ dev_ungrabs' = dev_ungrabs + 1
                   /\ recording' = FALSE
                   /\ compiled' = build_macro(fed, config)
                   /\ accepted' = FALSE
              ELSE /\ accepted' = ok
                   /\ compiled' = NoMacro
                   /\ UNCHANGED <<position, device_grabbed, dev_ungrabs,
                                  recording>>
    /\ UNCHANGED <<dev_grabs, config>>
    /\ UNCHANGED <<remap_vars, keymap_vars, daemon_vars, bridge_vars>>

\* the timeout has passed
timeout ==
    /\ position = "polling"
    /\ leave("returned")
    /\ rec_op' = RecCall("stop", NoEvent)
    /\ UNCHANGED <<dev_grabs, stop_pressed, polls, _events, config>>
    /\ UNCHANGED <<remap_vars, keymap_vars, daemon_vars, bridge_vars>>

\* a mutant of read_raises: an exception while reading leaves the call
\* without the ungrab
read_raises_stays_grabbed ==
    /\ position = "polling"
    /\ position' = "raised"
    /\ recording' = FALSE
    /\ compiled' = NoMacro
    /\ accepted' = FALSE
    /\ rec_op' = RecCall("stop", NoEvent)
    /\ UNCHANGED <<device_grabbed, dev_ungrabs>>
    /\ UNCHANGED <<dev_grabs, stop_pressed, polls, _events, config>>
    /\ UNCHANGED <<remap_vars, keymap_vars, daemon_vars, bridge_vars>>

\* reading the device raises something other than "nothing to read"
read_raises ==
    /\ position = "polling"
    /\ leave("raised")
    /\ rec_op' = RecCall("stop", NoEvent)
    /\ UNCHANGED <<dev_grabs, stop_pressed, polls, _events, config>>
    /\ UNCHANGED <<remap_vars, keymap_vars, daemon_vars, bridge_vars>>

DeviceRecorderNext ==
    record_from_device \/ poll_nothing \/ poll_event \/ timeout
    \/ read_raises

SpecDeviceRecorder == DeviceRecorderInit /\ [][DeviceRecorderNext]_vars

\* KeyState, the dataclass in RemapEngine.state: its fields and their values
KeyState == [pressed |-> pressed, active_layer |-> active_layer]

-----------------------------------------------------------------------------
(* What the specification says of a profile document, for the properties   *)

\* the binding of layer `id` of profile p for numeric code c, if any
DocBinding(p, id, c) ==
    LET found == {b \in UNION {{l.bindings[i] : i \in DOMAIN l.bindings} :
                        l \in {p.layers[j] : j \in DOMAIN p.layers} \cap
                              {l \in {p.layers[j] : j \in DOMAIN p.layers} :
                                   l.id = id}} :
                      schema_to_evdev_code(b.input_code) = c}
    IN IF found = {} THEN NoBinding ELSE CHOOSE b \in found : TRUE

\* resolve(code): the active layer's binding, else the base layer's
resolve(p, layer, c) ==
    IF DocBinding(p, layer, c) # NoBinding THEN DocBinding(p, layer, c)
    ELSE DocBinding(p, "base", c)

\* the numeric codes of the hold modifiers of p's layers, with their layer
DocModifiers(p) ==
    {<<schema_to_evdev_code(p.layers[j].hold_modifier_input_code),
       p.layers[j].id>> : j \in {j \in DOMAIN p.layers :
                            p.layers[j].hold_modifier_input_code # ""}}

DocModifierCodes(p) == {m[1] : m \in DocModifiers(p)}

RECURSIVE DownsOf(_)
DownsOf(keys) ==
    IF keys = <<>> THEN <<>>
    ELSE <<down(schema_to_evdev_code(Head(keys)))>> \o DownsOf(Tail(keys))

RECURSIVE UpsReversed(_)
UpsReversed(keys) ==
    IF keys = <<>> THEN <<>>
    ELSE UpsReversed(Tail(keys)) \o <<up(schema_to_evdev_code(Head(keys)))>>

\* the release effect of a binding in the table of action semantics
ReleaseWrites(b) ==
    CASE b.action_type = "KEY" -> <<up(schema_to_evdev_code(b.output_keys[1]))>>
      [] b.action_type = "CHORD" -> UpsReversed(b.output_keys)
      [] b.action_type = "PASSTHROUGH" -> <<up(schema_to_evdev_code(b.input_code))>>
      [] OTHER -> <<>>

\* the last call was process_event on a key event
KeyCall(o) == o.name = "process_event" /\ o.event.type = ecodes.EV_KEY

\* no write of ws repeats a down of a held code or releases a code not held
RECURSIVE NoGhost(_, _)
NoGhost(held, ws) ==
    IF ws = <<>> THEN TRUE
    ELSE LET w == Head(ws)
         IN /\ (w.value = 1 => w.code \notin held)
            /\ (w.value = 0 => w.code \in held)
            /\ NoGhost(ApplyWrites(held, <<w>>), Tail(ws))

\* the number of writes up(c) among ws
UpCount(ws, c) == Cardinality({i \in DOMAIN ws : ws[i] = up(c)})

-----------------------------------------------------------------------------
(* Properties                                                              *)

\* C1 (press-bound release): with the sink installed, the release of a key
\* writes the release of the binding that fired on its pending press, also
\* when the layer changed in between; and scenario S4, (SIDE,1), (EXTRA,1),
\* (SIDE,0), (EXTRA,0) on the hypershift profile, writes exactly
\* down(KEY_A), up(KEY_A).
C1_PressBoundRelease ==
    /\ [][(/\ KeyCall(op') /\ op'.event.value = 0 /\ uinput
           /\ fired[op'.event.code] # NoBinding)
          => Writes(effects') = ReleaseWrites(fired[op'.event.code])]_vars
    /\ [](hist = S4.events => sink = <<down(ecodes.KEY_A), up(ecodes.KEY_A)>>)

\* C2 (release symmetry): whenever every physical key that was pressed has
\* been released and no call is in progress, no output code is left down
\* on the sink.
C2_ReleaseSymmetry ==
    (waiting = NotWaiting /\ phys_down = {}) => sink_down = {}

\* C3 (reload safety): reload_profile writes an up for every output code
\* that is down on the sink, and leaves no output down, no key recorded as
\* pressed and the base layer active.
C3_ReloadSafety ==
    [][op'.name = "reload_profile"
       => /\ \A c \in sink_down : UpCount(Writes(effects'), c) >= 1
          /\ sink_down' = {}
          /\ pressed' = {}
          /\ active_layer' = "base"]_vars

\* C4 (release_all_keys): the call returns normally, writes exactly one up
\* for every output code that is down, and leaves no output down and no key
\* recorded as pressed.
C4_ReleaseAllKeys ==
    [][op'.name = "release_all_keys"
       => /\ ~raised'
          /\ \A c \in sink_down : UpCount(Writes(effects'), c) = 1
          /\ sink_down' = {}
          /\ pressed' = {}]_vars

\* C5 (idempotent hold, no ghost releases): process_event never writes
\* down(c) for a code that is down on the sink already, nor up(c) for a code
\* that is not.
C5_NoGhostWrites ==
    [][op'.name = "process_event" => NoGhost(sink_down, Writes(effects'))]_vars

\* the codes written by a call
WrittenCodes(effs) == {Writes(effs)[i].code : i \in DOMAIN Writes(effs)}

\* C6 as stated (layer modifier transparency): no call writes a down or up
\* for a code listed in layer_modifiers, and process_event returns true for
\* every key event of such a code.
C6_ModifierNeverWritten ==
    [][/\ WrittenCodes(effects') \cap DOMAIN _layer_modifiers = {}
       /\ (KeyCall(op') /\ op'.event.code \in DocModifierCodes(profile))
          => handled']_vars

\* C6 as amended: a key event whose code is a layer modifier is consumed
\* (press, release and repeat return true) and writes nothing, whether or
\* not the code also has a binding; and reload_profile writes no release
\* for a layer modifier's code.
C6_ModifierEventsConsumed ==
    [][/\ (KeyCall(op') /\ op'.event.code \in DocModifierCodes(profile))
          => (handled' /\ effects' = <<>> /\ sink_down' = sink_down)
       /\ op'.name = "reload_profile"
          => WrittenCodes(effects') \cap DocModifierCodes(profile) = {}]_vars

\* C6 witness: with the sink installed, the press of a layer modifier that
\* also has a binding in the base layer was consumed without a write.
C6_Witness ==
    /\ KeyCall(op) /\ op.event.value = 1 /\ uinput
    /\ op.event.code \in DocModifierCodes(profile)
    /\ DocBinding(profile, "base", op.event.code) # NoBinding
    /\ handled /\ effects = <<>>

\* C7 (layer modifier release): the release of a layer modifier returns the
\* engine to the base layer if it is the modifier held, and leaves the
\* active layer alone if it is not; a press always activates its layer.
C7_ModifierRelease ==
    [][(KeyCall(op') /\ op'.event.code \in DocModifierCodes(profile))
       => /\ op'.event.value = 1
             => <<op'.event.code, active_layer'>> \in DocModifiers(profile)
          /\ (op'.event.value = 0 /\ modifier_held = op'.event.code)
             => active_layer' = "base"
          /\ (op'.event.value = 0 /\ modifier_held # op'.event.code)
             => active_layer' = active_layer]_vars

\* the writes of the press of binding b, in the table of action semantics
PressWrites(b) ==
    CASE b.action_type = "KEY" -> DownsOf(<<b.output_keys[1]>>)
      [] b.action_type = "CHORD" -> DownsOf(b.output_keys)
      [] b.action_type = "PASSTHROUGH" -> DownsOf(<<b.input_code>>)
      [] b.action_type = "MACRO" -> Writes(_handle_binding_down(b))
      [] OTHER -> <<>>

\* C8 (binding resolution under Hypershift): the press of a key fires the
\* binding of the active layer, else the base layer's, else it is passed
\* through; while a layer modifier is held its layer is the active one; and
\* scenario S3 writes exactly down(KEY_B), up(KEY_B).
C8_Resolution ==
    /\ [][(/\ KeyCall(op') /\ op'.event.value = 1 /\ uinput
           /\ op'.event.code \notin DocModifierCodes(profile))
          => LET b == resolve(profile, active_layer, op'.event.code)
             IN /\ handled' = (b # NoBinding)
                /\ Writes(effects') = PressWrites(b)]_vars
    /\ [](modifier_held # None
          => <<modifier_held, active_layer>> \in DocModifiers(profile))
    /\ [](hist = S3.events => sink = <<down(ecodes.KEY_B), up(ecodes.KEY_B)>>)

\* C9 (chord order): with the sink installed, a press that resolves to a
\* CHORD binding writes down(k1), ..., down(kn) and nothing else, a release
\* that resolves to it writes up(kn), ..., up(k1) and nothing else; and
\* scenario S2 writes down(KEY_LEFTCTRL), down(KEY_C), up(KEY_C),
\* up(KEY_LEFTCTRL).
C9_ChordOrder ==
    /\ [][(/\ KeyCall(op') /\ uinput
           /\ op'.event.code \notin DocModifierCodes(profile)
           /\ resolve(profile, active_layer, op'.event.code).action_type = "CHORD")
          => LET ks == resolve(profile, active_layer, op'.event.code).output_keys
             IN /\ op'.event.value = 1 => effects' = DownsOf(ks)
                /\ op'.event.value = 0 => effects' = UpsReversed(ks)]_vars
    /\ [](hist = S2.events
          => sink = <<down(ecodes.KEY_LEFTCTRL), down(ecodes.KEY_C),
                      up(ecodes.KEY_C), up(ecodes.KEY_LEFTCTRL)>>)

\* C9 witness: scenario S2 has run to its end, the last call being the
\* release of the chord, which wrote two releases.
C9_Witness ==
    /\ hist = S2.events
    /\ KeyCall(op) /\ op.event.value = 0
    /\ Len(effects) = 2 /\ sink_down = {}

\* C10 (passthrough neutrality): a key event whose code is no layer
\* modifier and has no binding in the active layer or in base returns
\* false, writes nothing and changes nothing in the engine.
C10_PassthroughNeutral ==
    [][(/\ KeyCall(op')
        /\ op'.event.code \notin DocModifierCodes(profile)
        /\ resolve(profile, active_layer, op'.event.code) = NoBinding)
       => /\ ~handled'
          /\ effects' = <<>>
          /\ UNCHANGED engine_vars
          /\ sink_down' = sink_down]_vars

\* C10 witness: with a key held and the sink installed, the press of an
\* unbound key was passed through.
C10_Witness ==
    /\ KeyCall(op) /\ op.event.value = 1 /\ uinput
    /\ op.event.code \notin DocModifierCodes(profile)
    /\ resolve(profile, active_layer, op.event.code) = NoBinding
    /\ pressed # {} /\ sink_down # {}
    /\ ~handled

\* C11 (emit failures do not propagate): process_event never raises, also
\* when a write or sync on the sink fails; it returns the handled value it
\* returns when the sink works. Stated of the step that ends a call which
\* has reached its writes: the call does not raise and returns the value
\* it had settled on before writing.
C11_EmitFailuresSwallowed ==
    [][(/\ op'.name = "process_event"
        /\ waiting.pc = "emit" /\ waiting' = NotWaiting)
       => /\ ~raised'
          /\ handled' = waiting.handled]_vars

\* C12 (release without a pending press): the release of a bound key whose
\* press the engine has not seen since the profile was loaded -- never
\* pressed, or pressed before reload_profile -- returns true and writes
\* nothing.
C12_StrayReleaseSilent ==
    [][(/\ KeyCall(op') /\ op'.event.value = 0
        /\ op'.event.code \notin DocModifierCodes(profile)
        /\ resolve(profile, active_layer, op'.event.code) # NoBinding
        /\ fired[op'.event.code] = NoBinding)
       => (handled' /\ effects' = <<>>)]_vars

\* the macro of profile p a binding names, or no steps at all
DocMacro(p, b) ==
    LET found == {i \in DOMAIN p.macros : p.macros[i].id = b.macro_id}
    IN IF b.action_type = "MACRO" /\ found # {}
       THEN p.macros[CHOOSE i \in found : TRUE]
       ELSE MacroAction("", <<>>, 0, 0)

\* body, n times over, with pause between two runs of it
RECURSIVE Repeated(_, _, _)
Repeated(body, n, pause) ==
    IF n <= 0 THEN <<>>
    ELSE IF n = 1 THEN body
    ELSE body \o pause \o Repeated(body, n - 1, pause)

\* what running macro m n times over does: a pause only between iterations
Iterations(m, n) ==
    Repeated(execute_steps(m.steps), n,
             IF m.repeat_delay_ms > 0 THEN <<Sleep(m.repeat_delay_ms)>>
             ELSE <<>>)

\* C13 (macro execution): the press of a key that resolves to a MACRO
\* binding returns true after running the macro's steps repeat_count times
\* over, sleeping repeat_delay_ms between two iterations and not after the
\* last; the release of the key writes nothing; and two presses in a row
\* write what 2 x repeat_count iterations write.
C13_MacroExecution ==
    [][(/\ KeyCall(op')
        /\ op'.event.code \notin DocModifierCodes(profile)
        /\ resolve(profile, active_layer, op'.event.code).action_type = "MACRO")
       => LET m == DocMacro(profile,
                            resolve(profile, active_layer, op'.event.code))
          IN /\ op'.event.value = 1
                => /\ handled'
                   /\ effects' = Iterations(m, m.repeat_count)
             /\ op'.event.value = 0 => (handled' /\ effects' = <<>>)
             /\ (op'.event.value = 1 /\ op = op')
                => Writes(effects) \o Writes(effects')
                   = Writes(Iterations(m, 2 * m.repeat_count))]_vars

\* C13 witness: with the sink installed, the press of a key ran the macro
\* that repeats: it wrote its key press twice and paused once, in between.
C13_Witness ==
    /\ KeyCall(op) /\ op.event.value = 1 /\ uinput
    /\ DocMacro(profile, resolve(profile, active_layer, op.event.code)).repeat_count = 2
    /\ pressed = {op.event.code}
    /\ effects = <<down(ecodes.KEY_C), Sleep(10), up(ecodes.KEY_C), Sleep(5),
                   down(ecodes.KEY_C), Sleep(10), up(ecodes.KEY_C)>>

\* C14 (DISABLED versus PASSTHROUGH): press and release of a key that
\* resolves to a DISABLED binding return true and write nothing; with the
\* sink installed, press and release of a key that resolves to a
\* PASSTHROUGH binding return true and write the down, then the up, of the
\* binding's own input code; scenario S5 writes exactly down(BTN_BACK),
\* up(BTN_BACK), and each of its four events returns true.
C14_DisabledPassthrough ==
    /\ [][(/\ KeyCall(op') /\ op'.event.value \in {0, 1}
           /\ op'.event.code \notin DocModifierCodes(profile))
          => LET b == resolve(profile, active_layer, op'.event.code)
             IN /\ b.action_type = "DISABLED"
                   => (handled' /\ effects' = <<>>)
                /\ (b.action_type = "PASSTHROUGH" /\ uinput)
                   => /\ handled'
                      /\ effects' = <<Key(getattr_ecodes(b.input_code),
                                          op'.event.value)>>]_vars
    /\ [](hist = S5.events
          => sink = <<down(ecodes.BTN_BACK), up(ecodes.BTN_BACK)>>)
    /\ []((/\ KeyCall(op) /\ profile = S5.profile
           /\ hist # <<>> /\ IsPrefix(hist, S5.events))
          => handled)

\* C14 witness: scenario S5 has run to its end; the disabled key wrote
\* nothing, the passthrough key its own press and release.
C14_Witness ==
    /\ hist = S5.events
    /\ KeyCall(op) /\ op.event = Ev(ecodes.BTN_BACK, 0)
    /\ handled /\ effects = <<up(ecodes.BTN_BACK)>>
    /\ sink = <<down(ecodes.BTN_BACK), up(ecodes.BTN_BACK)>>

\* C15 (autorepeat): an autorepeat event (value 2) of a layer modifier or
\* of a key with a binding returns true, writes nothing and changes neither
\* active_layer nor anything else the engine keeps.
C15_AutorepeatConsumed ==
    [][(/\ KeyCall(op') /\ op'.event.value = 2
        /\ \/ op'.event.code \in DocModifierCodes(profile)
           \/ resolve(profile, active_layer, op'.event.code) # NoBinding)
       => /\ handled'
          /\ effects' = <<>>
          /\ UNCHANGED engine_vars
          /\ sink_down' = sink_down]_vars

\* C15 witness: with the sink installed, a shift layer active and a bound
\* key held, the autorepeat of that key was consumed.
C15_Witness ==
    /\ KeyCall(op) /\ op.event.value = 2 /\ uinput
    /\ op.event.code \in pressed
    /\ active_layer # "base" /\ sink_down # {}
    /\ handled /\ effects = <<>>

\* C16 (non-key events): for an event whose type is not the key type,
\* process_event returns false, writes nothing and leaves KeyState and the
\* lookup tables as they are, whatever the state of the engine.
C16_NonKeyNeutral ==
    [][(op'.name = "process_event" /\ op'.event.type # ecodes.EV_KEY)
       => /\ ~handled'
          /\ ~raised'
          /\ effects' = <<>>
          /\ UNCHANGED engine_vars
          /\ sink_down' = sink_down]_vars

\* C16 witness: with the sink installed, a shift layer active and a key
\* held, an event of another type was passed through although its code is
\* the code of a key the active layer binds.
C16_Witness ==
    /\ op.name = "process_event" /\ op.event.type = ecodes.EV_ABS
    /\ uinput /\ pressed # {} /\ active_layer # "base"
    /\ _get_binding(op.event.code) # NoBinding
    /\ ~handled /\ effects = <<>>

\* a multiset of codes after the writes ws: a down adds one to the count of
\* its code, an up takes one off and removes the code when none is left
RECURSIVE HeldAfter(_, _)
HeldAfter(held, ws) ==
    IF ws = <<>> THEN held
    ELSE LET c == Head(ws).code
             n == DictGet(held, c, 0)
         IN HeldAfter(IF Head(ws).value = 1 THEN DictSet(held, c, n + 1)
                      ELSE IF Head(ws).value = 0 /\ n > 1
                      THEN DictSet(held, c, n - 1)
                      ELSE IF Head(ws).value = 0
                      THEN [x \in (DOMAIN held) \ {c} |-> held[x]]
                      ELSE held,
                      Tail(ws))

\* C17 (output_held bookkeeping): KeyState has a field output_held, empty
\* at first, that every call keeps equal to the downs less the ups written
\* for each code; the press of a key that resolves to a KEY binding puts
\* the binding's output code in it and the release that follows takes it
\* out.
C17_OutputHeld ==
    /\ []("output_held" \in DOMAIN KeyState)
    /\ [](op.name = "__init__" => KeyState.output_held = EmptyDict)
    /\ [][/\ "output_held" \in DOMAIN KeyState'
          /\ KeyState'.output_held
             = HeldAfter(KeyState.output_held, Writes(effects'))
          /\ (/\ KeyCall(op') /\ uinput
              /\ op'.event.code \notin DocModifierCodes(profile)
              /\ resolve(profile, active_layer, op'.event.code).action_type = "KEY")
             => LET out == schema_to_evdev_code(
                               resolve(profile, active_layer,
                                       op'.event.code).output_keys[1])
                IN /\ op'.event.value = 1
                      => out \in DOMAIN KeyState'.output_held
                   /\ (op'.event.value = 0 /\ op.event = Ev(op'.event.code, 1))
                      => out \notin DOMAIN KeyState'.output_held]_vars

\* C18 (press tracking): KeyState has the fields physical_pressed and
\* active_bindings, both empty at first; the press of a key that resolves
\* to a binding puts the key's code in both, no other event of another key
\* takes it out, and the release of the key takes it out of both.
C18_PressTracking ==
    /\ [](/\ "physical_pressed" \in DOMAIN KeyState
          /\ "active_bindings" \in DOMAIN KeyState)
    /\ [](op.name = "__init__"
          => /\ KeyState.physical_pressed = {}
             /\ KeyState.active_bindings = EmptyDict)
    /\ [][(/\ "physical_pressed" \in DOMAIN KeyState'
           /\ "active_bindings" \in DOMAIN KeyState'
           /\ KeyCall(op')
           /\ op'.event.code \notin DocModifierCodes(profile))
          => LET c == op'.event.code
                 held == {k \in KeyState.physical_pressed
                               \cap DOMAIN KeyState.active_bindings : k # c}
             IN /\ (/\ op'.event.value = 1
                    /\ resolve(profile, active_layer, c) # NoBinding)
                   => /\ c \in KeyState'.physical_pressed
                      /\ c \in DOMAIN KeyState'.active_bindings
                /\ op'.event.value = 0
                   => /\ c \notin KeyState'.physical_pressed
                      /\ c \notin DOMAIN KeyState'.active_bindings
                /\ held \subseteq KeyState'.physical_pressed
                /\ held \subseteq DOMAIN KeyState'.active_bindings]_vars

\* the last call on the keycode map was schema_to_evdev_code
CodeLookup == lookup.fn = "schema_to_evdev_code"

\* names in another case, with the schema or kernel name they are a case
\* variant of
CaseVariantOf ==
    [a |-> "A", b |-> "B", c |-> "C", q |-> "Q", ctrl |-> "CTRL",
     Ctrl |-> "CTRL", shift |-> "SHIFT", tab |-> "TAB", enter |-> "ENTER",
     space |-> "SPACE", Space |-> "SPACE", left |-> "LEFT", stop |-> "STOP",
     mouse_left |-> "MOUSE_LEFT", mouse_side |-> "MOUSE_SIDE",
     Mouse_Side |-> "MOUSE_SIDE", mouse_back |-> "MOUSE_BACK",
     key_a |-> "KEY_A", btn_side |-> "BTN_SIDE"]

\* C19 (case-insensitive names): a case variant of a schema name resolves
\* to the numeric code the name itself resolves to.
C19_CaseInsensitive ==
    (CodeLookup /\ lookup.name \in DOMAIN CaseVariantOf)
    => answer = schema_to_evdev_code(CaseVariantOf[lookup.name])

\* the schema table: each schema name with the numeric code of the kernel
\* name it stands for
DocSchemaTable ==
    {<<EVDEV_TO_SCHEMA[k], ecodes[k]>> : k \in DOMAIN EVDEV_TO_SCHEMA}

\* the numeric code of kernel constant k, if there is one
KernelCode(k) == IF k \in DOMAIN ecodes THEN ecodes[k] ELSE None

\* the resolution order of schema_to_numeric
Resolved(name) ==
    IF \E e \in DocSchemaTable : e[1] = name
    THEN (CHOOSE e \in DocSchemaTable : e[1] = name)[2]
    ELSE IF KernelCode(name) # None THEN KernelCode(name)
    ELSE IF KernelCode("KEY_" \o name) # None THEN KernelCode("KEY_" \o name)
    ELSE IF KernelCode("BTN_" \o name) # None THEN KernelCode("BTN_" \o name)
    ELSE None

\* C20 (resolution order): schema_to_evdev_code returns the schema table's
\* entry for the name if it has one, else the kernel constant of that very
\* name, else the constant KEY_<name>, else BTN_<name>, else nothing.
C20_ResolutionOrder ==
    CodeLookup => answer = Resolved(lookup.name)

\* C20 witnesses, one state each: STOP resolved by the table although
\* KEY_STOP is another key; KEY_STOP resolved as a kernel name; BACK
\* resolved as KEY_BACK although BTN_BACK exists; TOUCH resolved as
\* BTN_TOUCH; a name of nothing resolved to nothing.
C20_Witness ==
    /\ CodeLookup
    /\ lookup.name = "BACK" /\ answer = ecodes.KEY_BACK
    /\ Resolved("STOP") = ecodes.KEY_STOPCD
    /\ Resolved("KEY_STOP") = ecodes.KEY_STOP
    /\ Resolved("TOUCH") = ecodes.BTN_TOUCH
    /\ Resolved("NOPE") = None

\* the last call on the keycode map was evdev_code_to_schema
AliasLookup == lookup.fn = "evdev_code_to_schema"

\* C21 (keycode round trip): for a kernel name k of EVDEV_TO_SCHEMA, the
\* alias evdev_code_to_schema returns for k, and k itself, both resolve
\* through schema_to_evdev_code to the numeric code of k.
C21_RoundTrip ==
    (AliasLookup /\ lookup.name \in DOMAIN EVDEV_TO_SCHEMA)
    => /\ KernelCode(lookup.name) # None
       /\ schema_to_evdev_code(answer) = KernelCode(lookup.name)
       /\ schema_to_evdev_code(lookup.name) = KernelCode(lookup.name)

\* C21 witness: KEY_STOPCD was given the alias STOP, which resolves to the
\* code of KEY_STOPCD and not to that of KEY_STOP.
C21_Witness ==
    /\ AliasLookup /\ lookup.name = "KEY_STOPCD" /\ answer = "STOP"
    /\ schema_to_evdev_code(answer) = ecodes.KEY_STOPCD
    /\ schema_to_evdev_code(answer) # ecodes.KEY_STOP

\* the last call on the recorder was record_event with a press or release
\* of a key while recording
Recordable(call, on) ==
    /\ on
    /\ call.event.type = ecodes.EV_KEY
    /\ call.event.value \in {0, 1}

\* C22 (recorder acceptance): record_event returns true and adds exactly
\* one RecordedEvent, for the event it was called with, at the end of the
\* buffer if the recorder is recording and the event is a key event with
\* value 0 or 1; otherwise it returns false and leaves the buffer as it is.
C22_RecorderAcceptance ==
    [][rec_op'.name = "record_event"
       => IF Recordable(rec_op', recording)
          THEN /\ accepted'
               /\ Len(_events') = Len(_events) + 1
               /\ SubSeq(_events', 1, Len(_events)) = _events
               /\ LET r == _events'[Len(_events')]
                  IN /\ r.code = rec_op'.event.code
                     /\ r.value = rec_op'.event.value
                     /\ r.timestamp = rec_op'.event.timestamp
          ELSE ~accepted' /\ _events' = _events]_vars

\* C22 witness: while recording, with a press in the buffer, an autorepeat
\* of the key was turned down.
C22_Witness ==
    /\ rec_op.name = "record_event" /\ rec_op.event.value = 2
    /\ recording /\ Len(_events) = 1 /\ _events[1].value = 1
    /\ ~accepted


\* C23 (recorder lifecycle): start() leaves the buffer empty and the
\* recorder recording, whatever was buffered and whether or not it was
\* recording; stop() leaves it not recording and returns the macro compiled
\* from the buffer; clear() leaves the buffer empty and the recording flag
\* as it was.
C23_Lifecycle ==
    [][/\ rec_op'.name = "start" => (_events' = <<>> /\ recording')
       /\ rec_op'.name = "stop"
          => (~recording' /\ compiled' = build_macro(_events, config))
       /\ rec_op'.name = "clear"
          => (_events' = <<>> /\ recording' = recording)]_vars

\* C23 witness: clear() was called on a recorder that is recording, and
\* it still is.
C23_Witness ==
    rec_op.name = "clear" /\ recording /\ _events = <<>>


\* the buffered events at i and i + 1 are a press of a key and its release
\* with nothing between them
AdjacentPair(i) ==
    /\ i >= 1 /\ i + 1 <= Len(_events)
    /\ _events[i].value = 1 /\ _events[i + 1].value = 0
    /\ _events[i + 1].code = _events[i].code

\* ... no more than 100 ms apart, in a recorder that merges
QuickPair(i) ==
    /\ AdjacentPair(i)
    /\ config.merge_press_release
    /\ _events[i + 1].timestamp - _events[i].timestamp <= 100

\* the buffered events that get a step of their own: all but the releases
\* of quick pairs
OwnStep == {i \in 1..Len(_events) : ~QuickPair(i - 1)}

\* the j-th of them
NthOwnStep(j) ==
    CHOOSE i \in OwnStep : Cardinality({k \in OwnStep : k < i}) = j - 1

\* the key steps the claim gives the buffer: KEY_PRESS for a quick pair,
\* KEY_DOWN and KEY_UP for every other press and release, in buffer order
DocKeySteps ==
    [j \in 1..Cardinality(OwnStep) |->
        LET i == NthOwnStep(j)
        IN [type |-> IF QuickPair(i) THEN "KEY_PRESS"
                     ELSE IF _events[i].value = 1 THEN "KEY_DOWN"
                     ELSE "KEY_UP",
            key |-> _events[i].key_name]]

IsKeyStep(step) == step.type # "DELAY"

\* the key steps of the macro stop() returned
KeySteps ==
    LET steps == SelectSeq(compiled.steps, IsKeyStep)
    IN [j \in 1..Len(steps) |-> [type |-> steps[j].type, key |-> steps[j].key]]

\* C24 (recorder merge window): in the macro stop() returns, a press of a
\* key directly followed by its release no more than 100 ms later, in a
\* recorder that merges, is exactly one KEY_PRESS of the key and no
\* KEY_DOWN or KEY_UP; a pair further apart, or any pair in a recorder
\* that does not merge, is KEY_DOWN, at most one DELAY, KEY_UP, in that
\* order, and no KEY_PRESS.
C24_MergeWindow ==
    rec_op.name = "stop"
    => /\ KeySteps = DocKeySteps
       /\ \A j \in 1..(Len(compiled.steps) - 1) :
            ~(compiled.steps[j].type = "DELAY"
              /\ compiled.steps[j + 1].type = "DELAY")

\* C24 witness: the chord Ctrl down, C down, C up 50 ms later, Ctrl up was
\* compiled by a recorder that merges: C is one KEY_PRESS between the
\* KEY_DOWN and the KEY_UP of Ctrl, which are 200 ms apart.
C24_Witness ==
    /\ rec_op.name = "stop" /\ _events = chord_buffer
    /\ config.merge_press_release
    /\ KeySteps = <<[type |-> "KEY_DOWN", key |-> "CTRL"],
                    [type |-> "KEY_PRESS", key |-> "C"],
                    [type |-> "KEY_UP", key |-> "CTRL"]>>


\* C25 (delay bounds): whatever the recorder's min_delay_ms and
\* max_delay_ms and whatever was buffered, every DELAY step of the macro
\* stop() returns lasts at least min_delay_ms and at most max_delay_ms.
C25_DelayBounds ==
    rec_op.name = "stop"
    => \A j \in 1..Len(compiled.steps) :
         compiled.steps[j].type = "DELAY"
         => /\ config.min_delay_ms <= compiled.steps[j].delay_ms
            /\ compiled.steps[j].delay_ms <= config.max_delay_ms


\* the place in the returned macro of its j-th key step
KeyStepAt(j) ==
    CHOOSE p \in 1..Len(compiled.steps) :
        /\ IsKeyStep(compiled.steps[p])
        /\ Cardinality({q \in 1..p : IsKeyStep(compiled.steps[q])}) = j

\* a DELAY stands right before the j-th key step
DelayedStep(j) ==
    /\ KeyStepAt(j) > 1
    /\ compiled.steps[KeyStepAt(j) - 1].type = "DELAY"

\* the time of the last event the i-th buffered event's step stands for
EmittedAt(i) ==
    IF QuickPair(i) THEN _events[i + 1].timestamp ELSE _events[i].timestamp

\* the time between the j-th key step and the one emitted before it
GapBefore(j) == _events[NthOwnStep(j)].timestamp - EmittedAt(NthOwnStep(j - 1))

\* C26 (delay emission): the macro stop() returns neither starts nor ends
\* with a DELAY; a DELAY stands right before a key step exactly if the
\* step is not the first, record_delays is true and the gap since the step
\* emitted before it is at least min_delay_ms; with record_delays false
\* there is no DELAY at all; and the default recorder compiles
\* (A,1)@1.000, (A,0)@1.050, (B,1)@1.500, (B,0)@1.550 to
\* [KEY_PRESS(A), DELAY(450), KEY_PRESS(B)].
C26_DelayEmission ==
    rec_op.name = "stop"
    => LET steps == compiled.steps
       IN /\ steps # <<>>
             => IsKeyStep(steps[1]) /\ IsKeyStep(steps[Len(steps)])
          /\ Len(SelectSeq(steps, IsKeyStep)) = Cardinality(OwnStep)
          /\ \A j \in 1..Cardinality(OwnStep) :
               DelayedStep(j) <=> /\ j > 1
                                  /\ config.record_delays
                                  /\ GapBefore(j) >= config.min_delay_ms
          /\ ~config.record_delays
             => \A p \in 1..Len(steps) : IsKeyStep(steps[p])
          /\ (_events = S6_buffer /\ config = DefaultConfig)
             => steps = <<MacroStep("KEY_PRESS", "A", 0, <<>>),
                          MacroStep("DELAY", "", 450, <<>>),
                          MacroStep("KEY_PRESS", "B", 0, <<>>)>>

\* C26 witness: the default recorder compiled scenario S6 and the macro
\* has one DELAY, of 450 ms, between its two KEY_PRESS steps.
C26_Witness ==
    /\ rec_op.name = "stop" /\ _events = S6_buffer /\ config = DefaultConfig
    /\ Len(compiled.steps) = 3
    /\ DelayedStep(2) /\ compiled.steps[2].delay_ms = 450


\* C28 (cleanup): cleanup(), in whatever state the daemon is, calls ungrab
\* exactly once on every device that was grabbed and on no other, calls
\* the engine's release_all_keys once if there is an engine, closes the
\* sink if there is one, raises nothing, and leaves grabbed_devices empty
\* and the sink handle absent.
C28_Cleanup ==
    [][daemon_op'.name = "cleanup"
       => /\ \A id \in DeviceIds :
               daemon_op'.ungrabs[id] = IF id \in grabbed_devices THEN 1 ELSE 0
          /\ engine => daemon_op'.releases = 1
          /\ daemon_uinput => daemon_op'.closes = 1
          /\ ~daemon_op'.raised
          /\ grabbed_devices' = {}
          /\ ~daemon_uinput']_vars

\* what the dispatch loop is to write on the sink for an event the engine
\* did not handle
RawForward(event) ==
    <<[call |-> "write_event", event |-> event]>>
    \o IF event.type = ecodes.EV_SYN THEN <<>>
       ELSE <<[call |-> "syn", event |-> NoEvent]>>

\* C29 (dispatch forwarding): for an event read from a grabbed device the
\* loop calls engine.process_event with it; if the call returns false it
\* writes the raw event on the sink, followed by a sync unless the event
\* is a sync event itself; if the call returns true it writes nothing of
\* its own.
C29_DispatchForwarding ==
    [][(dispatching # NoEvent /\ dispatching' = NoEvent)
       => /\ op' = Call("process_event", dispatching, "")
          /\ daemon_op'.name = "dispatch"
          /\ daemon_op'.forwarded = IF handled' THEN <<>>
                                    ELSE RawForward(dispatching)]_vars

\* C29 witness: a sync event went through the loop; the engine did not
\* handle it and it was written on the sink with no sync after it.
C29_Witness ==
    /\ daemon_op.name = "dispatch" /\ op.name = "process_event"
    /\ op.event.type = ecodes.EV_SYN
    /\ ~handled
    /\ daemon_op.forwarded = <<[call |-> "write_event", event |-> op.event]>>


\* what reload_profile and process_event mutate: KeyState and the tables
EngineState == <<profile, pressed, active_layer, _bindings, _macros,
                 _layer_modifiers>>

\* C30 (profile switch on the dispatch thread): a profile switch asked for
\* on the hotkey listener thread reaches the engine only on the dispatch
\* thread and between two events: reload_profile never runs while a
\* process_event call is in progress, and every change of KeyState or of
\* the lookup tables is made by the dispatch thread.
C30_SwitchBetweenEvents ==
    [][/\ (calls' # calls /\ op'.name = "reload_profile")
          => /\ thread' = "dispatch"
             /\ dispatching = NoEvent /\ dispatching' = NoEvent
             /\ waiting = NotWaiting
       /\ EngineState' # EngineState => thread' = "dispatch"
       /\ (dispatching # NoEvent /\ dispatching' # NoEvent)
          => \/ EngineState' = EngineState
             \/ op' = Call("time.sleep", dispatching, "")
       /\ waiting # NotWaiting => calls' = calls]_vars

\* C30 witness: the dispatch thread has applied a switch to the profile
\* with the macro and is now in a time.sleep of process_event, in the
\* middle of the macro, while a further intent of the listener waits in
\* the queue.
C30_Witness ==
    /\ daemon_op.name = "switch_profile" /\ thread = "dispatch"
    /\ profile = macro_profile
    /\ dispatching # NoEvent /\ waiting # NotWaiting
    /\ queue # <<>>


\* the presses and releases a sequence of key steps stands for, in order:
\* KEY_PRESS is a press and a release of its key
RECURSIVE Unfolded(_)
Unfolded(steps) ==
    IF steps = <<>> THEN <<>>
    ELSE LET k == Head(steps).key
         IN (IF Head(steps).type = "KEY_PRESS" THEN <<<<k, 1>>, <<k, 0>>>>
             ELSE IF Head(steps).type = "KEY_DOWN" THEN <<<<k, 1>>>>
             ELSE <<<<k, 0>>>>)
            \o Unfolded(Tail(steps))

\* the number of steps of a type in the macro stop() returned
StepCount(type) ==
    Cardinality({j \in 1..Len(compiled.steps) : compiled.steps[j].type = type})

\* the number of buffered events with a value
EventCount(value) ==
    Cardinality({i \in 1..Len(_events) : _events[i].value = value})

\* C40 (compilation conserves events): the key steps of the macro stop()
\* returns stand for the buffered events, each exactly once and in buffer
\* order: every press is one KEY_DOWN or the first half of one KEY_PRESS,
\* every release one KEY_UP or the second half of one KEY_PRESS, so
\* #KEY_DOWN + #KEY_PRESS is the number of presses and #KEY_UP + #KEY_PRESS
\* the number of releases.
C40_EventsConserved ==
    rec_op.name = "stop"
    => /\ Unfolded(SelectSeq(compiled.steps, IsKeyStep))
          = [i \in 1..Len(_events) |->
                <<_events[i].key_name, _events[i].value>>]
       /\ StepCount("KEY_DOWN") + StepCount("KEY_PRESS") = EventCount(1)
       /\ StepCount("KEY_UP") + StepCount("KEY_PRESS") = EventCount(0)

\* C40 witness: a buffer of three events, a quick press and release and
\* one more press, was compiled: one KEY_PRESS and one KEY_DOWN stand for
\* the two presses and the release.
C40_Witness ==
    /\ rec_op.name = "stop" /\ Len(_events) = 3
    /\ StepCount("KEY_PRESS") = 1 /\ StepCount("KEY_DOWN") = 1
    /\ StepCount("KEY_UP") = 0


\* C37: in every reachable engine state active_layer is "base" or the id of
\* a layer of the current profile that declares a hold modifier, and it is
\* "base" when the engine is made and right after reload_profile.
C37_ActiveLayer ==
    /\ \/ active_layer = "base"
       \/ \E j \in DOMAIN profile.layers :
            /\ profile.layers[j].id = active_layer
            /\ profile.layers[j].hold_modifier_input_code # ""
    /\ op.name \in {"__init__", "reload_profile"} => active_layer = "base"

\* C37 witness: the modifier of the second shift layer of a profile with
\* two of them is held, and that layer is the active one.
C37_Witness ==
    /\ op.name = "process_event"
    /\ profile = two_shift_profile
    /\ active_layer = "fn"
    /\ modifier_held = ecodes.BTN_FORWARD


\* C36: for a physical key that is not a layer modifier, process_event
\* returns for the key's release what it returned for the matching press,
\* whatever happened to active_layer in between: a consumed press has its
\* release consumed, a press passed through has its release passed through.
C36_ConsistentConsumption ==
    [][(/\ op'.name = "process_event"
        /\ op'.event.type = ecodes.EV_KEY
        /\ op'.event.value = 0
        /\ op'.event.code \in phys_down
        /\ op'.event.code \notin DOMAIN _layer_modifiers)
       => (handled' <=> op'.event.code \in press_consumed)]_vars


\* the ids of p's layers, and the macros of p by id
DocLayerIds(p) == {p.layers[j].id : j \in DOMAIN p.layers}
DocMacroIds(p) == {p.macros[i].id : i \in DOMAIN p.macros}

\* C34: after reload_profile(p) the three lookup tables hold exactly the
\* entries derived from p (one table per layer of p with p's bindings of
\* that layer by code, p's macros by id, p's hold modifiers by code), and
\* from then on process_event consumes a key event, or writes anything for
\* it, only when the key is a hold modifier of p or resolves to a binding
\* of p.
C34_NoStaleEntries ==
    /\ DOMAIN _bindings = DocLayerIds(profile)
    /\ \A id \in DOMAIN _bindings :
         /\ \A c \in DOMAIN _bindings[id] :
              /\ DocBinding(profile, id, c) # NoBinding
              /\ _bindings[id][c] = DocBinding(profile, id, c)
         /\ \A c \in InputCodes :
              DocBinding(profile, id, c) # NoBinding
              => c \in DOMAIN _bindings[id]
    /\ DOMAIN _macros = DocMacroIds(profile)
    /\ \A i \in DOMAIN profile.macros :
         _macros[profile.macros[i].id] = profile.macros[i]
    /\ {<<c, _layer_modifiers[c]>> : c \in DOMAIN _layer_modifiers}
         = {m \in DocModifiers(profile) : m[1] # None}
    /\ \A event \in Events :
         (process_event(event).handled \/ process_event(event).effects # <<>>)
         => /\ event.type = ecodes.EV_KEY
            /\ \/ event.code \in DocModifierCodes(profile)
               \/ resolve(profile, active_layer, event.code) # NoBinding

\* C34 witness: a profile with bindings, a macro or a shift layer consumed
\* the press of a key that is still down, and then the empty profile was
\* loaded.
C34_Witness ==
    /\ op.name = "reload_profile"
    /\ profile = empty_profile
    /\ press_consumed # {}


\* the names among keys that resolve to a code the sink can be written
Resolving(keys) == SelectSeq(keys, LAMBDA k : Truthy(schema_to_evdev_code(k)))

\* the bindings of layer j of profile p whose input name resolves to no code
InertBindings(p, j) ==
    {p.layers[j].bindings[i] : i \in
        {i \in DOMAIN p.layers[j].bindings :
            schema_to_evdev_code(p.layers[j].bindings[i].input_code) = None}}

\* what the press of binding b of profile p writes when the outputs that do
\* not resolve are left out
InertPressWrites(p, b) ==
    CASE b.action_type = "KEY" -> DownsOf(Resolving(<<b.output_keys[1]>>))
      [] b.action_type = "CHORD" -> DownsOf(Resolving(b.output_keys))
      [] b.action_type = "MACRO" ->
           Writes(execute_steps(SelectSeq(DocMacro(p, b).steps,
               LAMBDA st : st.type \notin {"KEY_DOWN", "KEY_UP", "KEY_PRESS"}
                           \/ Truthy(schema_to_evdev_code(st.key)))))
      [] OTHER -> <<>>

\* C33 (inert bindings): a binding whose input name resolves to no code is
\* in no lookup table, and every key that no binding of the profile
\* resolves for is passed through; the press of a key bound to KEY, CHORD
\* or MACRO is consumed and writes the downs of the outputs that resolve,
\* in order, and nothing for the others; its release and autorepeat are
\* consumed and write no code but those of outputs that resolve; no call
\* raises.
C33_InertBindings ==
    /\ \A j \in DOMAIN profile.layers :
         /\ profile.layers[j].id \in DOMAIN _bindings
         /\ \A c \in DOMAIN _bindings[profile.layers[j].id] :
              /\ c # None
              /\ _bindings[profile.layers[j].id][c]
                   \notin InertBindings(profile, j)
    /\ KeyCall(op) =>
         LET b == resolve(profile, active_layer, op.event.code)
         IN /\ ~raised
            /\ (op.event.code \notin DocModifierCodes(profile)
                /\ b = NoBinding)
               => (~handled /\ effects = <<>>)
            /\ (op.event.code \notin DocModifierCodes(profile)
                /\ b.action_type \in {"KEY", "CHORD", "MACRO"})
               => /\ handled
                  /\ None \notin WrittenCodes(effects)
                  /\ (op.event.value = 1 /\ uinput)
                     => Writes(effects) = InertPressWrites(profile, b)
                  /\ WrittenCodes(effects) \subseteq
                       {InertPressWrites(profile, b)[i].code :
                          i \in DOMAIN InertPressWrites(profile, b)}

\* C33 witness: the press of the key whose CHORD names CTRL, a name that
\* does not resolve, and C wrote the downs of CTRL and C and was consumed.
C33_Witness ==
    /\ KeyCall(op) /\ op.event.value = 1 /\ handled
    /\ profile = inert_profile
    /\ op.event.code = ecodes.BTN_EXTRA
    /\ Writes(effects) = <<down(ecodes.KEY_LEFTCTRL), down(ecodes.KEY_C)>>


\* the key of a character the specification types: the ASCII letters in
\* either case, the digits, space, newline and tab
DocCharKey(char) ==
    CASE char \in {"a", "A"} -> ecodes.KEY_A
      [] char \in {"b", "B"} -> ecodes.KEY_B
      [] char = "1" -> ecodes.KEY_1
      [] char = "sp" -> ecodes.KEY_SPACE
      [] char = "nl" -> ecodes.KEY_ENTER
      [] char = "tab" -> ecodes.KEY_TAB
      [] OTHER -> None

\* what typing one character writes
DocCharWrites(char) ==
    IF DocCharKey(char) = None THEN <<>>
    ELSE IF char \in {"A", "B"}
    THEN <<down(ecodes.KEY_LEFTSHIFT), down(DocCharKey(char)),
           up(DocCharKey(char)), up(ecodes.KEY_LEFTSHIFT)>>
    ELSE <<down(DocCharKey(char)), up(DocCharKey(char))>>

RECURSIVE DocTextWrites(_)
DocTextWrites(text) ==
    IF text = <<>> THEN <<>>
    ELSE DocCharWrites(Head(text)) \o DocTextWrites(Tail(text))

RECURSIVE DocStepsWrites(_)
DocStepsWrites(steps) ==
    IF steps = <<>> THEN <<>>
    ELSE DocTextWrites(Head(steps).text) \o DocStepsWrites(Tail(steps))

\* the macro that the last pressed key ran, and its TEXT steps
TypedMacro ==
    DocMacro(profile, resolve(profile, active_layer, op.event.code))

TypedSteps == SelectSeq(TypedMacro.steps, LAMBDA st : st.type = "TEXT")

\* every down among the writes ws has its up later among them
EveryDownReleased(ws) ==
    \A i \in DOMAIN ws :
        ws[i].value = 1 => \E j \in DOMAIN ws : j > i /\ ws[j] = up(ws[i].code)

\* C35 (TEXT macro step): with the sink installed every TEXT step writes,
\* for its characters in order, down and up of the letter key, wrapped in
\* SHIFT down and SHIFT up exactly for an uppercase letter, down and up of
\* the digit key, of SPACE, ENTER and TAB for space, newline and tab, and
\* nothing for any other character; every down of the step has its up
\* later in the same step; a macro of TEXT steps only that runs once
\* writes what its steps write, one after the other.
C35_TextStep ==
    (KeyCall(op) /\ op.event.value = 1 /\ handled /\ uinput)
    => /\ \A i \in DOMAIN TypedSteps :
            /\ Writes(_execute_macro_step(TypedSteps[i]))
                 = DocTextWrites(TypedSteps[i].text)
            /\ EveryDownReleased(Writes(_execute_macro_step(TypedSteps[i])))
       /\ (TypedSteps # <<>> /\ TypedSteps = TypedMacro.steps
           /\ TypedMacro.repeat_count = 1)
          => Writes(effects) = DocStepsWrites(TypedSteps)

\* C35 witness: the macro that types "aB1" ran: A down and up, then SHIFT
\* down, B down and up, SHIFT up, then 1 down and up.
C35_Witness ==
    /\ KeyCall(op) /\ op.event.value = 1 /\ handled /\ uinput
    /\ profile = text_profile
    /\ Len(TypedSteps) = 1
    /\ TypedSteps[1].text = <<"a", "B", "1">>
    /\ Writes(effects) =
         <<down(ecodes.KEY_A), up(ecodes.KEY_A), down(ecodes.KEY_LEFTSHIFT),
           down(ecodes.KEY_B), up(ecodes.KEY_B), up(ecodes.KEY_LEFTSHIFT),
           down(ecodes.KEY_1), up(ecodes.KEY_1)>>


\* binding i (counted from 0) of the listened bindings matches the keys
\* held: it is enabled, has a key, and its key and modifiers are held
HotkeyMatches(i, keys) ==
    LET b == profile_hotkeys[i + 1]
    IN /\ b.enabled
       /\ b.key # ""
       /\ lower(b.key) \in keys
       /\ \A m \in DOMAIN b.modifiers : b.modifiers[m] \in keys

\* C38 (hotkey fires once per hold): a callback calls on_profile_switch(i)
\* only if, since the call before with the same i, a release left binding
\* i not matching the keys held; a press callback that leaves the keys held
\* as they are (a repeat) never calls it for a binding it was called for
\* during this hold.
C38_OncePerHold ==
    [][(listener /\ hk_op'.name = "_on_press")
       => /\ switched' # None => switched' \notin held_since_switch
          /\ current_keys' = current_keys
             => switched' \notin held_since_switch]_vars

\* C38 witness: ctrl+1 switched once, and the repeat of the 1 while both
\* keys stay held called nothing.
C38_Witness ==
    /\ hk_op = HotkeyCall("_on_press", keyboard_KeyCode("1", None))
    /\ current_keys = {"ctrl", "1"}
    /\ switched = None
    /\ combo_switches = 1
    /\ held_since_switch = {0}

\* a press callback that calls on_profile_switch calls it with the lowest
\* index whose binding is not triggered and matches the keys held
LowestMatchingCall ==
    (listener /\ hk_op'.name = "_on_press" /\ switched' # None)
    => /\ HotkeyMatches(switched', current_keys')
       /\ switched' \notin _triggered
       /\ \A j \in 0..(switched' - 1) :
            j \in _triggered \/ ~HotkeyMatches(j, current_keys')

\* C39 (hotkey trigger guard): a press callback calls on_profile_switch at
\* most once, with the lowest index whose binding is not triggered and
\* matches the keys held, a binding that is enabled, has a key, and has its
\* key and modifiers held; and while the set of keys held stays the same
\* there is at most one call in total, whatever number of bindings the
\* set satisfies.
C39_TriggerGuard ==
    [][/\ LowestMatchingCall
       /\ (listener /\ hk_op'.name = "_on_press") => combo_switches' <= 1]_vars

\* the part of C39 about one callback
C39_LowestMatching == [][LowestMatchingCall]_vars


-----------------------------------------------------------------------------
(* C32: the setters of the bridge fail closed                              *)

\* the cached value a setter is about
CachedValue(device, name) ==
    IF name = "set_brightness" THEN device.brightness ELSE device.dpi

\* the capability a setter asks for
HasCapability(device, name) ==
    IF name = "set_brightness" THEN device.has_brightness ELSE device.has_dpi

\* the value a setter call hands to the device
AskedValue(o) ==
    IF o.name = "set_brightness" THEN o.value
    ELSE <<o.value[1], IF o.value[2] = None THEN o.value[1] ELSE o.value[2]>>

\* the one call a setter makes on the device object
AskedCall(o) ==
    SetCall(o.serial,
            IF o.name = "set_brightness" THEN "setBrightness" ELSE "setDPI",
            AskedValue(o))

\* C32: OpenRazerBridge setters fail closed.  set_brightness / set_dpi on a
\* serial whose device is unknown or lacks the capability returns False
\* without calling the device's setter; when the DBus call raises, the
\* setter returns False and the cached value (device.brightness /
\* device.dpi) is what it was (for a device first seen during this call,
\* what discovery read); the cached value is updated only after a
\* successful DBus call, and then to the value that was set.
C32_FailClosed ==
    [][bridge_op'.name \in {"set_brightness", "set_dpi"}
       => LET o == bridge_op'
              s == o.serial
          IN /\ (\/ s \notin DOMAIN _devices'
                 \/ ~HasCapability(_devices'[s], o.name))
                => o.result = FALSE /\ o.made = <<>>
             /\ ~o.result
                => /\ o.made \in {<<>>, <<AskedCall(o)>>}
                   /\ s \in DOMAIN _devices
                      => /\ s \in DOMAIN _devices'
                         /\ CachedValue(_devices'[s], o.name)
                              = CachedValue(_devices[s], o.name)
                   /\ s \in (DOMAIN _devices') \ (DOMAIN _devices)
                      => CachedValue(_devices'[s], o.name)
                           = CachedValue(_get_device_info(dbus, s, TRUE),
                                         o.name)
             /\ o.result
                => /\ o.made = <<AskedCall(o)>>
                   /\ s \in DOMAIN _devices'
                   /\ CachedValue(_devices'[s], o.name) = AskedValue(o)
                   /\ CachedValue(dbus'[s], o.name) = AskedValue(o)
             /\ ~o.rescanned
                => \A t \in DOMAIN _devices :
                     (\/ t \notin DOMAIN _devices'
                      \/ CachedValue(_devices'[t], o.name)
                           # CachedValue(_devices[t], o.name))
                     => t = s /\ o.result]_vars

\* the DBus call of set_brightness raised on the cached mouse: False, and
\* the cache still holds the 75 that discovery read
C32_Witness ==
    /\ bridge_op = BridgeCall("set_brightness", "PM1234567890", 50, FALSE,
                     <<SetCall("PM1234567890", "setBrightness", 50)>>, FALSE)
    /\ "PM1234567890" \in DOMAIN _devices
    /\ _devices["PM1234567890"].has_brightness
    /\ _devices["PM1234567890"].brightness = 75


-----------------------------------------------------------------------------
(* C31: record_from_device grabs once and ungrabs once                     *)

\* C31: DeviceMacroRecorder.record_from_device grabs the device exactly
\* once and ungrabs it exactly once on every exit path (timeout, stop key
\* pressed and released, or an exception while reading), so the device is
\* never left grabbed after the call returns or raises; while the call
\* runs the device is grabbed and not yet ungrabbed.
C31_GrabOnceUngrabOnce ==
    /\ position = "polling"
       => dev_grabs = 1 /\ dev_ungrabs = 0 /\ device_grabbed
    /\ position \in {"returned", "raised"}
       => dev_grabs = 1 /\ dev_ungrabs = 1 /\ ~device_grabbed
    /\ position = "made" => dev_grabs = 0 /\ ~device_grabbed

\* the call raised while reading, after the stop key had gone down
C31_Witness ==
    /\ position = "raised"
    /\ stop_pressed
    /\ dev_ungrabs = 1
    /\ rec_op = RecCall("stop", NoEvent)

=============================================================================
